---- MODULE Spec2Model ----
(***************************************************************************)
(* Selection anchoring and agent_edit broadcast of crabgrass.              *)
(*                                                                         *)
(* Strings are sequences of one-character strings; offsets are Python's    *)
(* 0-based offsets, so the Python slice s[a:b] is Slice(s, a, b).          *)
(***************************************************************************)
EXTENDS Integers, Sequences, FiniteSets, TLC

\* ------------------------------------------------------------------ bounds
\* longest stored document and selection text of the exhaustive input space
MaxStoredLen == 4
MaxClaimLen == 2
\* the same for the whitespace-drift input space (letters and whitespace only)
MaxDriftStoredLen == 6
MaxDriftClaimLen == 3
\* selection-action requests and SSE connections of one run
MaxRequests == 2
MaxConnections == 1
\* sessions and messages of one run of calls on the session concept
MaxSessions == 3
MaxSessionMessages == 2
\* conversations of the message-history runs, the length of the long one
\* and of the others
MaxHistorySessions == 2
MaxHistoryMessages == 51
MaxOtherMessages == 1
\* the ideas created after the seeded one
MaxNewIdeas == 1
\* calls of subscribe_to_idea / subscribe_to_objective, and of the emitters
MaxSubscriptions == 2
MaxEmits == 2

\* ------------------------------------------------- characters and strings
\* The characters the inputs are drawn from: a letter, the two commonest
\* whitespace characters, a bullet, a digit and the dot of a numbered marker.
Chars == {"a", " ", "\n", "-", "1", "."}

\* str.isspace() / the \s class of re, for one character
Whitespace == {" ", "\t", "\n", "\r"}

IsSpace(c) == c \in Whitespace

\* the \d class of re
Digits == {"0", "1", "2", "3", "4", "5", "6", "7", "8", "9"}

\* the bullet characters of the list-marker pattern
Bullets == {"*", "-", "+"}

Min(a, b) == IF a < b THEN a ELSE b

\* The characters of the whitespace-drift input space
DriftChars == {"a", " ", "\n", "-"}

\* all strings over the characters cs of length at most n
StringsUpTo(cs, n) == UNION {[1..k -> cs] : k \in 0..n}

\* Python s[a:b] for 0 <= a, 0 <= b (an end past len(s) is clamped)
Slice(s, a, b) == SubSeq(s, a + 1, Min(b, Len(s)))

\* Find searching from the right, as s.rfind(t) would
FindLastOccurrence(s, t) ==
  LET hits == {i \in 0..(Len(s) - Len(t)) : Slice(s, i, i + Len(t)) = t}
  IN IF hits = {} THEN -1 ELSE CHOOSE i \in hits : \A j \in hits : j <= i

\* Python s.find(t): the lowest offset at which t occurs in s, or -1
Find(s, t) ==
  LET hits == {i \in 0..(Len(s) - Len(t)) : Slice(s, i, i + Len(t)) = t}
  IN IF hits = {} THEN -1 ELSE CHOOSE i \in hits : \A j \in hits : i <= j

\* Python s.rfind("\n", 0, end): the highest offset below end holding "\n", or -1
RFindNewline(s, end) ==
  LET hits == {i \in 0..(Min(end, Len(s)) - 1) : s[i + 1] = "\n"}
  IN IF hits = {} THEN -1 ELSE CHOOSE i \in hits : \A j \in hits : j <= i

\* Python s.split(): the maximal runs of non-whitespace characters, in order
RECURSIVE SplitFrom(_, _, _, _)
SplitFrom(s, i, words, cur) ==
  IF i > Len(s)
    THEN IF cur = <<>> THEN words ELSE Append(words, cur)
    ELSE IF IsSpace(s[i])
           THEN SplitFrom(s, i + 1, IF cur = <<>> THEN words ELSE Append(words, cur), <<>>)
           ELSE SplitFrom(s, i + 1, words, Append(cur, s[i]))

Split(s) == SplitFrom(s, 1, <<>>, <<>>)

\* Python " ".join(words)
RECURSIVE JoinSpace(_)
JoinSpace(words) ==
  IF words = <<>> THEN <<>>
  ELSE IF Len(words) = 1 THEN words[1]
  ELSE words[1] \o <<" ">> \o JoinSpace(Tail(words))

\* ' '.join(s.split())
Normalize(s) == JoinSpace(Split(s))

\* IsListMarker with \s* in place of \s+: the whitespace after the marker optional
IsListMarkerLoose(prefix) ==
  LET n == Len(prefix)
      numbered == \E d \in 1..(n - 1) :
                    /\ \A i \in 1..d : prefix[i] \in Digits
                    /\ prefix[d + 1] = "."
                    /\ \A i \in (d + 2)..n : IsSpace(prefix[i])
      bullet == /\ n >= 1
                /\ prefix[1] \in Bullets
                /\ \A i \in 2..n : IsSpace(prefix[i])
  IN numbered \/ bullet

\* re.match(r'^(\d+\.\s+|\*\s+|-\s+|\+\s+)$', prefix) succeeds
IsListMarker(prefix) ==
  LET n == Len(prefix)
      numbered == \E d \in 1..(n - 2) :
                    /\ \A i \in 1..d : prefix[i] \in Digits
                    /\ prefix[d + 1] = "."
                    /\ \A i \in (d + 2)..n : IsSpace(prefix[i])
      bullet == /\ n >= 2
                /\ prefix[1] \in Bullets
                /\ \A i \in 2..n : IsSpace(prefix[i])
  IN numbered \/ bullet

\* --------------------------------------- the anchoring of the kernel route
\* agent.py: the while loop that maps normalized_start back to an offset
RECURSIVE WalkStart(_, _, _, _)
WalkStart(stored_content, normalized_start, actual_start, norm_pos) ==
  IF norm_pos < normalized_start /\ actual_start < Len(stored_content)
    THEN IF IsSpace(stored_content[actual_start + 1])
           THEN LET RECURSIVE SkipRun(_)
                    SkipRun(k) == IF k < Len(stored_content) /\ IsSpace(stored_content[k + 1])
                                    THEN SkipRun(k + 1) ELSE k
                IN WalkStart(stored_content, normalized_start, SkipRun(actual_start), norm_pos + 1)
           ELSE WalkStart(stored_content, normalized_start, actual_start + 1, norm_pos + 1)
    ELSE actual_start

\* MatchStart without the whitespace-normalized second attempt
MatchStartLiteralOnly(stored_content, selection_text) == Find(stored_content, selection_text)

\* agent.py: the match start, -1 when the selection cannot be located
MatchStart(stored_content, selection_text) ==
  LET literal == Find(stored_content, selection_text)
  IN IF literal # -1 THEN literal
     ELSE LET normalized_start == Find(Normalize(stored_content), Normalize(selection_text))
          IN IF normalized_start = -1 THEN -1
             ELSE WalkStart(stored_content, normalized_start, 0, 0)

\* agent.py: the start of the line that holds offset p
LineStart(stored_content, p) ==
  LET nl == RFindNewline(stored_content, p) IN IF nl = -1 THEN 0 ELSE nl + 1

\* agent.py: list-marker expansion of the start
ExpandStart(stored_content, p) ==
  IF IsListMarker(Slice(stored_content, LineStart(stored_content, p), p))
    THEN LineStart(stored_content, p) ELSE p

\* AdjustEnd taking the longest slice that normalizes to the selection
AdjustEndLongest(stored_content, selection_text, actual_start, actual_end) ==
  IF Slice(stored_content, actual_start, actual_end) = selection_text
    THEN actual_end
    ELSE LET remaining == Slice(stored_content, actual_start, Len(stored_content))
             offsets == {k \in Len(selection_text)..Len(remaining) :
                           Normalize(Slice(remaining, 0, k)) = Normalize(selection_text)}
         IN IF offsets = {} THEN actual_end
            ELSE actual_start + (CHOOSE k \in offsets : \A j \in offsets : k >= j)

\* agent.py: the end-boundary correction
AdjustEnd(stored_content, selection_text, actual_start, actual_end) ==
  IF Slice(stored_content, actual_start, actual_end) = selection_text
    THEN actual_end
    ELSE LET remaining == Slice(stored_content, actual_start, Len(stored_content))
             offsets == {k \in Len(selection_text)..Len(remaining) :
                           Normalize(Slice(remaining, 0, k)) = Normalize(selection_text)}
         IN IF offsets = {} THEN actual_end
            ELSE actual_start + (CHOOSE k \in offsets : \A j \in offsets : k <= j)

NotFound == [found |-> FALSE, start |-> -1, end |-> -1]

\* KernelResolve trying the whitespace-normalized search before the literal one
KernelResolveNormalizedFirst(stored_content, selection_text) ==
  LET normalized_start == Find(Normalize(stored_content), Normalize(selection_text))
      p == IF normalized_start # -1 THEN WalkStart(stored_content, normalized_start, 0, 0)
           ELSE Find(stored_content, selection_text)
  IN IF p = -1 THEN NotFound
     ELSE LET actual_start == ExpandStart(stored_content, p)
              actual_end == p + Len(selection_text)
          IN [found |-> TRUE, start |-> actual_start,
              end |-> AdjustEnd(stored_content, selection_text, actual_start, actual_end)]

\* agent.py: the anchoring of kernel_file_selection_action
KernelResolve(stored_content, selection_text) ==
  LET p == MatchStart(stored_content, selection_text)
  IN IF p = -1 THEN NotFound
     ELSE LET actual_start == ExpandStart(stored_content, p)
              actual_end == p + Len(selection_text)
          IN [found |-> TRUE, start |-> actual_start,
              end |-> AdjustEnd(stored_content, selection_text, actual_start, actual_end)]


\* ObjectiveWalk stepping over one whitespace character at a time
RECURSIVE ObjectiveWalkCharwise(_, _, _, _)
ObjectiveWalkCharwise(stored_content, normalized_start, actual_start, norm_pos) ==
  IF norm_pos < normalized_start /\ actual_start < Len(stored_content)
    THEN ObjectiveWalkCharwise(stored_content, normalized_start, actual_start + 1, norm_pos + 1)
    ELSE actual_start

\* ------------------------------------ the anchoring of the objective route
\* objectives.py: the anchoring of objective_file_selection_action
RECURSIVE ObjectiveWalk(_, _, _, _)
ObjectiveWalk(stored_content, normalized_start, actual_start, norm_pos) ==
  IF norm_pos < normalized_start /\ actual_start < Len(stored_content)
    THEN IF IsSpace(stored_content[actual_start + 1])
           THEN LET RECURSIVE Skip(_)
                    Skip(k) == IF k < Len(stored_content) /\ IsSpace(stored_content[k + 1])
                                 THEN Skip(k + 1) ELSE k
                IN ObjectiveWalk(stored_content, normalized_start, Skip(actual_start), norm_pos + 1)
           ELSE ObjectiveWalk(stored_content, normalized_start, actual_start + 1, norm_pos + 1)
    ELSE actual_start

ObjectiveResolve(stored_content, selection_text) ==
  LET literal == Find(stored_content, selection_text)
      normalized_selection == Normalize(selection_text)
      normalized_content == Normalize(stored_content)
      normalized_start == Find(normalized_content, normalized_selection)
  IN IF literal = -1 /\ normalized_start = -1 THEN NotFound
     ELSE LET p == IF literal # -1 THEN literal
                   ELSE ObjectiveWalk(stored_content, normalized_start, 0, 0)
              end0 == p + Len(selection_text)
              nl == RFindNewline(stored_content, p)
              line_start == IF nl = -1 THEN 0 ELSE nl + 1
              prefix == Slice(stored_content, line_start, p)
              actual_start == IF IsListMarker(prefix) THEN line_start ELSE p
              found_text == Slice(stored_content, actual_start, end0)
              remaining == Slice(stored_content, actual_start, Len(stored_content))
              offsets == {k \in Len(selection_text)..Len(remaining) :
                            Normalize(Slice(remaining, 0, k)) = normalized_selection}
              actual_end == IF found_text = selection_text \/ offsets = {} THEN end0
                            ELSE actual_start + (CHOOSE k \in offsets : \A j \in offsets : k <= j)
          IN [found |-> TRUE, start |-> actual_start, end |-> actual_end]

\* ---------------------------------------------------- the seeded database
ACME == "acme"
Users == {"sally", "sam"}
UserOrg(u) == ACME
UserRole(u) == IF u = "sam" THEN "org_admin" ELSE "member"

\* ideas and objectives that exist, and the organisation that owns each
Ideas == {"idea1"}
Objectives == {"obj1"}
EntityOrg(e) == ACME

KERNEL_FILE_TYPES == {"summary", "challenge", "approach", "coherent_steps"}

\* __init__.py FILE_TYPE_TO_AGENT and each agent's AGENT_TYPE
AgentTypeOf(file_type) == IF file_type = "coherent_steps" THEN "steps" ELSE file_type

\* ------------------------------------------------ inputs of the requests
\* path parameters a client may send
RequestIdeas == Ideas \cup {"ghost"}
RequestObjectives == Objectives \cup {"ghost"}
RequestFileTypes == {"summary", "bogus"}

\* stored documents the files may hold when the requests arrive
Docs == { <<"-", " ", "a">> }

\* selection texts and the advisory offsets sent with them
Texts == { <<"a">>, <<"a", " ", "a">>, <<"a", " ">> }
Offsets == { <<0, 0>>, <<2, 3>> }
Selections == {[text |-> t, start |-> o[1], end |-> o[2]] : t \in Texts, o \in Offsets}
NoSelection == [text |-> <<>>, start |-> 0, end |-> 0]

\* what the awaited LLM call may produce: some text, or an exception
\* (the backquote is written as a quote: it cannot appear in a string here)
Fence == <<"'", "'", "'">>
LlmTexts == { <<" ">> \o Fence \o <<"\n", "x", "\n">> \o Fence }
LlmOutcomes == {[ok |-> TRUE, text |-> t] : t \in LlmTexts} \cup {[ok |-> FALSE, text |-> <<>>]}

\* the sentence coach() returns when the LLM call raised
Apology == <<"s", "o", "r", "r", "y">>

\* challenge_agent.py / objective_agent.py coach(): the try/except round the LLM call
Coach(outcome) == IF outcome.ok THEN outcome.text ELSE Apology

\* Python s.strip()
RECURSIVE Strip(_)
Strip(s) ==
  IF s = <<>> THEN s
  ELSE IF IsSpace(s[1]) THEN Strip(Tail(s))
  ELSE IF IsSpace(s[Len(s)]) THEN Strip(SubSeq(s, 1, Len(s) - 1))
  ELSE s

\* Python s.split("\n")
RECURSIVE SplitLinesFrom(_, _, _, _)
SplitLinesFrom(s, i, lines, cur) ==
  IF i > Len(s) THEN Append(lines, cur)
  ELSE IF s[i] = "\n" THEN SplitLinesFrom(s, i + 1, Append(lines, cur), <<>>)
  ELSE SplitLinesFrom(s, i + 1, lines, Append(cur, s[i]))

SplitLines(s) == SplitLinesFrom(s, 1, <<>>, <<>>)

\* Python "\n".join(lines)
RECURSIVE JoinLines(_)
JoinLines(lines) ==
  IF lines = <<>> THEN <<>>
  ELSE IF Len(lines) = 1 THEN lines[1]
  ELSE lines[1] \o <<"\n">> \o JoinLines(Tail(lines))

StartsWith(s, t) == Len(s) >= Len(t) /\ SubSeq(s, 1, Len(t)) = t
EndsWith(s, t) == Len(s) >= Len(t) /\ SubSeq(s, Len(s) - Len(t) + 1, Len(s)) = t

\* agent.py: the clean-up of the agent's response
CleanReplacement(response) ==
  LET replacement_text == Strip(response)
  IN IF StartsWith(replacement_text, Fence) /\ EndsWith(replacement_text, Fence)
       THEN LET lines == SplitLines(replacement_text)
            IN JoinLines(SubSeq(lines, 2, Len(lines) - 1))
       ELSE replacement_text

\* KernelAnchor trusting the client's offsets when they delimit the text
KernelAnchorTrustingOffsets(stored_content, selection) ==
  IF /\ selection.start <= selection.end
     /\ Slice(stored_content, selection.start, selection.end) = selection.text
    THEN [found |-> TRUE, start |-> selection.start, end |-> selection.end]
    ELSE KernelResolve(stored_content, selection.text)

\* agent.py: what the route hands to the anchoring: only selection.text
KernelAnchor(stored_content, selection) == KernelResolve(stored_content, selection.text)

\* objectives.py: the same for the objective route
ObjectiveAnchor(stored_content, selection) == ObjectiveResolve(stored_content, selection.text)

\* ------------------------------------------------------------------ state
VARIABLES
  in_stored,             \* resolver input: the stored document
  in_claim,              \* resolver input: the selection text
  resolved,              \* whether the resolver has run on the inputs
  kres,                  \* the kernel route's anchoring of the inputs
  ores,                  \* the objective route's anchoring of the inputs
  kernel_files,          \* kernel_files table: <<idea, file type>> -> content
  objective_files,       \* objective_files table: objective -> content
  sessions,              \* sessions table, in order of creation (index = id)
  session_messages,      \* session_messages table, in order of insertion
  clock,                 \* datetime.now(), as a logical clock
  idea_subscribers,      \* sse._idea_subscribers: id -> list of queues
  objective_subscribers, \* sse._objective_subscribers: id -> list of queues
  queues,                \* the asyncio.Queue of each SSE connection
  conn,                  \* each SSE connection: state, kind, entity
  emitting,              \* the emit_event coroutine suspended in its loop, if any
  req,                   \* each selection-action or chat request
  next_edit,             \* number of edit ids generated so far
  ideas,                 \* ideas table: idea id -> row
  idea_collaborators,    \* idea_collaborators table: <<idea id, user id>>
  is_complete,           \* kernel_files table: <<idea, file type>> -> is_complete
  evaluation,            \* the agent evaluate() call in flight, or its result
  call                   \* the concept call made last and the value it returned

resolver_vars == <<in_stored, in_claim, resolved, kres, ores>>
store_vars == <<kernel_files, objective_files, sessions, session_messages, clock>>
sse_vars == <<idea_subscribers, objective_subscribers, queues, conn, emitting>>
concept_vars == <<ideas, idea_collaborators, is_complete, evaluation, call>>
vars == <<resolver_vars, store_vars, sse_vars, req, next_edit, concept_vars>>

Reqs == 1..MaxRequests
Conns == 1..MaxConnections

IdleReq == [pc |-> "idle", route |-> "none", entity |-> "none", file_type |-> "none",
            selection |-> NoSelection, stored_content |-> <<>>,
            actual_start |-> 0, actual_end |-> 0,
            edit_id |-> 0, session_id |-> 0, status |-> 0, detail |-> "none"]

NewConn == [state |-> "new", kind |-> "none", entity |-> "none"]

\* no emit_event coroutine is suspended
NoEmit == [active |-> FALSE, kind |-> "none", key |-> "none", index |-> 0, edit_id |-> 0,
           detached |-> FALSE]

\* no evaluate() call has been made
NoEvaluation == [pc |-> "idle", idea_id |-> "none", file_type |-> "none",
                 content |-> <<>>, outcome |-> [ok |-> FALSE, result |-> {}],
                 is_complete |-> FALSE]

\* no concept call has been made
NoCall == [op |-> "none", idea_id |-> "none", file_type |-> "none",
           agent_type |-> "none", user_id |-> "none", result |-> 0]

\* seed.py: the row of a demo idea, created by Sally in the Acme organization
SeedIdea == [org_id |-> ACME, creator_id |-> "sally", status |-> "draft",
             kernel_completion |-> 0]

\* the handler state before any request, with every file holding document d
InitServer(d) ==
  /\ kernel_files = [k \in Ideas \X KERNEL_FILE_TYPES |-> d]
  /\ objective_files = [o \in Objectives |-> d]
  /\ sessions = <<>>
  /\ session_messages = <<>>
  /\ clock = 0
  /\ idea_subscribers = <<>>
  /\ objective_subscribers = <<>>
  /\ queues = [c \in Conns |-> <<>>]
  /\ conn = [c \in Conns |-> NewConn]
  /\ emitting = NoEmit
  /\ req = [r \in Reqs |-> IdleReq]
  /\ next_edit = 0
  /\ ideas = [i \in Ideas |-> SeedIdea]
  /\ idea_collaborators = {}
  /\ is_complete = [k \in Ideas \X KERNEL_FILE_TYPES |-> FALSE]
  /\ evaluation = NoEvaluation
  /\ call = NoCall

InitInputs(stored_set, claim_set) ==
  /\ in_stored \in stored_set
  /\ in_claim \in claim_set
  /\ resolved = FALSE
  /\ kres = NotFound
  /\ ores = NotFound

Init ==
  /\ InitInputs({<<>>}, {<<>>})
  /\ \E d \in Docs : InitServer(d)

InitResolve ==
  /\ InitInputs(StringsUpTo(Chars, MaxStoredLen), StringsUpTo(Chars, MaxClaimLen))
  /\ InitServer(<<>>)

InitDrift ==
  /\ InitInputs(StringsUpTo(DriftChars, MaxDriftStoredLen), StringsUpTo(DriftChars, MaxDriftClaimLen))
  /\ InitServer(<<>>)

\* ---------------------------------------------- the resolver on its inputs
\* both routes' anchoring applied to the inputs
ResolveInputs ==
  /\ ~resolved
  /\ resolved' = TRUE
  /\ kres' = KernelResolve(in_stored, in_claim)
  /\ ores' = ObjectiveResolve(in_stored, in_claim)
  /\ UNCHANGED <<in_stored, in_claim, store_vars, sse_vars, req, next_edit, concept_vars>>

\* -------------------------------------------------------- session concept
SessionRefs == {[form |-> "absent", id |-> 0], [form |-> "malformed", id |-> 0]}
                 \cup {[form |-> "uuid", id |-> n] : n \in 1..(Len(sessions) + 1)}

\* session.py create / create_for_objective: the inserted row
NewSession(idea_id, objective_id, user_id, agent_type, file_type, now) ==
  [idea_id |-> idea_id, objective_id |-> objective_id, user_id |-> user_id,
   agent_type |-> agent_type, file_type |-> file_type, last_active |-> now]

\* session.py list_for_idea: the ids of the matching rows; a filter is
\* applied only when its argument is given ("none" stands for None)
ListForIdea(table, idea_id, agent_type, file_type) ==
  {n \in 1..Len(table) : /\ table[n].idea_id = idea_id
                         /\ agent_type # "none" => table[n].agent_type = agent_type
                         /\ file_type # "none" => table[n].file_type = file_type}

\* GetOrCreate returning the matching session that was created first
GetOrCreateOldest(table, idea_id, user_id, agent_type, file_type, now) ==
  LET found == ListForIdea(table, idea_id, agent_type, file_type)
  IN IF found # {}
       THEN <<table, CHOOSE n \in found : \A m \in found : n <= m>>
       ELSE <<Append(table, NewSession(idea_id, "none", user_id, agent_type, file_type, now)),
              Len(table) + 1>>

\* session.py get_or_create: <<table after the call, id of the session returned>>
GetOrCreate(table, idea_id, user_id, agent_type, file_type, now) ==
  LET found == ListForIdea(table, idea_id, agent_type, file_type)
  IN IF found # {}
       THEN <<table, CHOOSE n \in found :
                       \A m \in found : table[m].last_active <= table[n].last_active>>
       ELSE <<Append(table, NewSession(idea_id, "none", user_id, agent_type, file_type, now)),
              Len(table) + 1>>

\* session.py add_message: the sessions table after the UPDATE
TouchSession(table, session_id, now) ==
  [n \in 1..Len(table) |->
     IF n = session_id THEN [table[n] EXCEPT !.last_active = now] ELSE table[n]]

\* NewMessage storing every message with the role "user"
NewMessageAsUser(session_id, role, content, now) ==
  [session_id |-> session_id, role |-> "user", content |-> content, created_at |-> now]

\* session.py add_message: the inserted row (of the content only its kind,
\* "Selection Action" or "Selection Edit", is kept)
NewMessage(session_id, role, content, now) ==
  [session_id |-> session_id, role |-> role, content |-> content, created_at |-> now]

\* ------------------------------------------------------------- sse module
\* AgentEditEvent with a range that always starts at the top of the document
AgentEditEventFromTop(edit_id, file_path, actual_start, actual_end, content) ==
  [event_type |-> "agent_edit", edit_id |-> edit_id, file_path |-> file_path,
   operation |-> "replace", range |-> <<0, actual_end - actual_start>>, content |-> content]

\* sse.py emit_agent_edit: the event built from an AgentEdit
AgentEditEvent(edit_id, file_path, actual_start, actual_end, content) ==
  [event_type |-> "agent_edit", edit_id |-> edit_id, file_path |-> file_path,
   operation |-> "replace", range |-> <<actual_start, actual_end>>, content |-> content]

\* sse.py emit_event / emit_objective_event: put the event on every queue of
\* the entity's list, in list order
RECURSIVE PutAll(_, _, _)
PutAll(qs, subscribers, event) ==
  IF subscribers = <<>> THEN qs
  ELSE PutAll([qs EXCEPT ![Head(subscribers)] = Append(@, event)], Tail(subscribers), event)

\* Subscribers giving the list of whatever key the registry has
SubscribersOfSomeKey(registry, key) ==
  IF DOMAIN registry = {} THEN <<>> ELSE registry[CHOOSE k \in DOMAIN registry : TRUE]

\* dict.get(key, [])
Subscribers(registry, key) == IF key \in DOMAIN registry THEN registry[key] ELSE <<>>

\* EmitEvent putting the event on every connection's queue, whatever the key
EmitEventEverywhere(registry, key, event) == [c \in DOMAIN queues |-> Append(queues[c], event)]

EmitEvent(registry, key, event) == PutAll(queues, Subscribers(registry, key), event)

\* defaultdict: registry[key].append(queue)
AddSubscriber(registry, key, q) ==
  [k \in DOMAIN registry \cup {key} |->
     IF k = key THEN Append(Subscribers(registry, k), q) ELSE registry[k]]

\* list.remove(q): the list without its first q
RECURSIVE RemoveFirst(_, _)
RemoveFirst(list, q) ==
  IF list = <<>> THEN <<>>
  ELSE IF Head(list) = q THEN Tail(list)
  ELSE <<Head(list)>> \o RemoveFirst(Tail(list), q)

InList(list, q) == \E i \in 1..Len(list) : list[i] = q

\* RemoveSubscriber without the del of a list that became empty
RemoveSubscriberKeepingKey(registry, key, q) ==
  IF key \in DOMAIN registry /\ InList(registry[key], q)
    THEN [registry EXCEPT ![key] = RemoveFirst(@, q)]
    ELSE registry

\* sse.py unsubscribe_from_idea / unsubscribe_from_objective
RemoveSubscriber(registry, key, q) ==
  IF key \in DOMAIN registry /\ InList(registry[key], q)
    THEN IF RemoveFirst(registry[key], q) = <<>>
           THEN [k \in DOMAIN registry \ {key} |-> registry[k]]
           ELSE [registry EXCEPT ![key] = RemoveFirst(@, q)]
    ELSE registry

\* sse.py idea_events / objective_events: a client connects and its
\* generator subscribes a fresh queue
Subscribe(c, kind, entity) ==
  /\ conn[c].state = "new"
  /\ c > 1 => conn[c - 1].state # "new"     \* connections are numbered as they arrive
  /\ \/ /\ kind = "idea" /\ entity \in Ideas
        /\ idea_subscribers' = AddSubscriber(idea_subscribers, entity, c)
        /\ UNCHANGED objective_subscribers
     \/ /\ kind = "objective" /\ entity \in Objectives
        /\ objective_subscribers' = AddSubscriber(objective_subscribers, entity, c)
        /\ UNCHANGED idea_subscribers
  /\ conn' = [conn EXCEPT ![c] = [state |-> "open", kind |-> kind, entity |-> entity]]
  /\ UNCHANGED <<resolver_vars, concept_vars, store_vars, queues, emitting, req, next_edit>>

\* sse.py event_generator: the client disconnects while the generator awaits
\* queue.get(): CancelledError is raised inside the try
Disconnect(c) ==
  /\ conn[c].state = "open"
  /\ IF conn[c].kind = "idea"
       THEN /\ idea_subscribers' = RemoveSubscriber(idea_subscribers, conn[c].entity, c)
            /\ UNCHANGED objective_subscribers
       ELSE /\ objective_subscribers' = RemoveSubscriber(objective_subscribers, conn[c].entity, c)
            /\ UNCHANGED idea_subscribers
  \* the generator's frame goes away, and its queue with it
  /\ conn' = [conn EXCEPT ![c] = [NewConn EXCEPT !.state = "closed"]]
  /\ queues' = [queues EXCEPT ![c] = <<>>]
  /\ UNCHANGED <<resolver_vars, concept_vars, store_vars, emitting, req, next_edit>>

\* ------------------------------------------ calls on the SSE registries
\* the id strings the registries are keyed by, and the two registries
SseKeys == {"idea1", "obj1"}
SseKinds == {"idea", "objective"}

Registry(kind) == IF kind = "idea" THEN idea_subscribers ELSE objective_subscribers

\* asyncio.Queue(): maxsize 0, a queue without bound
QueueMaxSize == 0

\* a queue that holds at most one event
QueueFullAtOne(queue) == Len(queue) >= 1

\* asyncio.Queue.full(): put suspends only while this holds
QueueFull(queue) == QueueMaxSize > 0 /\ Len(queue) >= QueueMaxSize

\* the event the n-th emit call sends
SseEvent(n) == AgentEditEvent(n, <<"kernel", "summary">>, 0, 0, <<>>)

\* RunEmit putting the event at the head of each queue
RECURSIVE RunEmitAtHead(_, _, _, _)
RunEmitAtHead(qs, subscribers, index, event) ==
  IF index >= Len(subscribers)
    THEN [queues |-> qs, index |-> index, suspended |-> FALSE]
  ELSE RunEmitAtHead([qs EXCEPT ![subscribers[index + 1]] = <<event>> \o @],
                     subscribers, index + 1, event)

\* sse.py emit_event / emit_objective_event: the for loop from position
\* index of the list, until it ends or a put has to wait for room
RECURSIVE RunEmit(_, _, _, _)
RunEmit(qs, subscribers, index, event) ==
  IF index >= Len(subscribers)
    THEN [queues |-> qs, index |-> index, suspended |-> FALSE]
  ELSE IF QueueFull(qs[subscribers[index + 1]])
    THEN [queues |-> qs, index |-> index, suspended |-> TRUE]
  ELSE RunEmit([qs EXCEPT ![subscribers[index + 1]] = Append(@, event)],
               subscribers, index + 1, event)

\* sse.py subscribe_to_idea / subscribe_to_objective: a new queue, appended
\* to the list of the key
SseSubscribe(kind, key) ==
  LET q == Len(queues) + 1
  IN /\ Len(queues) < MaxConnections + MaxSubscriptions
     /\ queues' = Append(queues, <<>>)
     /\ IF kind = "idea"
          THEN /\ idea_subscribers' = AddSubscriber(idea_subscribers, key, q)
               /\ UNCHANGED objective_subscribers
          ELSE /\ objective_subscribers' = AddSubscriber(objective_subscribers, key, q)
               /\ UNCHANGED idea_subscribers
     /\ call' = [op |-> "subscribe", idea_id |-> key, file_type |-> "none",
                 agent_type |-> kind, user_id |-> "none", result |-> q]
     /\ UNCHANGED <<resolver_vars, store_vars, conn, emitting, req, next_edit,
                    ideas, idea_collaborators, is_complete, evaluation>>

\* sse.py unsubscribe_from_idea / unsubscribe_from_objective, for any queue;
\* a loop suspended over a list that is emptied and deleted finds it empty
SseUnsubscribe(kind, key, q) ==
  LET after == RemoveSubscriber(Registry(kind), key, q)
  IN /\ IF kind = "idea"
          THEN idea_subscribers' = after /\ UNCHANGED objective_subscribers
          ELSE objective_subscribers' = after /\ UNCHANGED idea_subscribers
     /\ emitting' = IF /\ emitting.active /\ emitting.kind = kind /\ emitting.key = key
                       /\ key \in DOMAIN Registry(kind) /\ key \notin DOMAIN after
                      THEN [emitting EXCEPT !.detached = TRUE] ELSE emitting
     /\ call' = [op |-> "unsubscribe", idea_id |-> key, file_type |-> "none",
                 agent_type |-> kind, user_id |-> "none", result |-> q]
     /\ UNCHANGED <<resolver_vars, store_vars, queues, conn, req, next_edit,
                    ideas, idea_collaborators, is_complete, evaluation>>

\* sse.py emit_event / emit_objective_event: the coroutine runs, from its
\* start or from where it was suspended, until it returns or a put suspends
SseEmit(kind, key) ==
  LET edit_id == IF emitting.active THEN emitting.edit_id ELSE next_edit + 1
      subscribers == IF emitting.active /\ emitting.detached THEN <<>>
                     ELSE Subscribers(Registry(kind), key)
      run == RunEmit(queues, subscribers, IF emitting.active THEN emitting.index ELSE 0,
                     SseEvent(edit_id))
  IN /\ IF emitting.active THEN kind = emitting.kind /\ key = emitting.key
                            ELSE next_edit < MaxEmits
     /\ queues' = run.queues
     /\ next_edit' = edit_id
     /\ emitting' = IF run.suspended
                      THEN [active |-> TRUE, kind |-> kind, key |-> key, index |-> run.index,
                            edit_id |-> edit_id, detached |-> FALSE]
                      ELSE NoEmit
     /\ call' = [op |-> IF run.suspended THEN "emit suspended" ELSE "emit",
                 idea_id |-> key, file_type |-> "none", agent_type |-> kind,
                 user_id |-> "none", result |-> edit_id]
     /\ UNCHANGED <<resolver_vars, store_vars, idea_subscribers, objective_subscribers, conn,
                    req, ideas, idea_collaborators, is_complete, evaluation>>

\* sse.py event_generator: queue.get() takes the oldest event of a queue
SseGet(q) ==
  /\ queues[q] # <<>>
  /\ queues' = [queues EXCEPT ![q] = Tail(@)]
  /\ call' = [op |-> "get", idea_id |-> "none", file_type |-> "none",
              agent_type |-> "none", user_id |-> "none", result |-> queues[q][1].edit_id]
  /\ UNCHANGED <<resolver_vars, store_vars, idea_subscribers, objective_subscribers, conn,
                 emitting, req, next_edit, ideas, idea_collaborators, is_complete, evaluation>>

\* subscribe, unsubscribe, emit and get coroutines in any order
NextSse ==
  \/ \E kind \in SseKinds, key \in SseKeys : SseSubscribe(kind, key)
  \/ \E kind \in SseKinds, key \in SseKeys, q \in 1..Len(queues) : SseUnsubscribe(kind, key, q)
  \/ \E kind \in SseKinds, key \in SseKeys : SseEmit(kind, key)
  \/ \E q \in 1..Len(queues) : SseGet(q)

SpecSse == Init /\ [][NextSse]_vars

\* ------------------------------------------------ selection-action routes
\* the request ends with an HTTPException
Failed(status, detail) ==
  [IdleReq EXCEPT !.pc = "done", !.status = status, !.detail = detail]

\* agent.py kernel_file_selection_action, up to the awaited LLM call
KernelSelectionStart(r, user, idea_id, file_type, selection, session_ref) ==
  /\ req[r].pc = "idle"
  /\ r > 1 => req[r - 1].pc # "idle"        \* requests are numbered as they arrive
  /\ IF idea_id \notin Ideas THEN
       /\ req' = [req EXCEPT ![r] = Failed(404, "Idea not found")]
       /\ UNCHANGED <<store_vars, next_edit>>
     ELSE IF EntityOrg(idea_id) # UserOrg(user) THEN
       /\ req' = [req EXCEPT ![r] = Failed(403, "Access denied")]
       /\ UNCHANGED <<store_vars, next_edit>>
     ELSE IF file_type \notin KERNEL_FILE_TYPES THEN
       /\ req' = [req EXCEPT ![r] = Failed(400, "Invalid file type")]
       /\ UNCHANGED <<store_vars, next_edit>>
     ELSE IF session_ref.form = "malformed" THEN
       \* UUID(request.session_id) raises ValueError: the generic handler
       /\ req' = [req EXCEPT ![r] = Failed(500, "ValueError")]
       /\ UNCHANGED <<store_vars, next_edit>>
     ELSE IF session_ref.form = "uuid" /\ session_ref.id \notin 1..Len(sessions) THEN
       /\ req' = [req EXCEPT ![r] = Failed(404, "Session not found")]
       /\ UNCHANGED <<store_vars, next_edit>>
     ELSE
       LET got == IF session_ref.form = "uuid" THEN <<sessions, session_ref.id>>
                  ELSE GetOrCreate(sessions, idea_id, user, AgentTypeOf(file_type),
                                   file_type, clock + 1)
           table == got[1]
           session_id == got[2]
       IN IF <<idea_id, file_type>> \notin DOMAIN kernel_files THEN
            /\ req' = [req EXCEPT ![r] = Failed(404, "Kernel file not found")]
            /\ sessions' = table
            /\ clock' = clock + 1
            /\ UNCHANGED <<kernel_files, objective_files, session_messages, next_edit>>
          ELSE
            LET stored_content == kernel_files[<<idea_id, file_type>>]
                anchor == KernelAnchor(stored_content, selection)
            IN IF ~anchor.found THEN
                 /\ req' = [req EXCEPT ![r] =
                      [Failed(400, "Could not locate selected text")
                         EXCEPT !.selection = [NoSelection EXCEPT !.text = selection.text],
                                !.stored_content = stored_content]]
                 /\ sessions' = table
                 /\ clock' = clock + 1
                 /\ UNCHANGED <<kernel_files, objective_files, session_messages, next_edit>>
               ELSE
                 /\ next_edit' = next_edit + 1
                 /\ session_messages' = Append(session_messages,
                      NewMessage(session_id, "user", "Selection Action", clock + 2))
                 /\ sessions' = TouchSession(table, session_id, clock + 2)
                 /\ clock' = clock + 2
                 /\ req' = [req EXCEPT ![r] =
                      [pc |-> "awaiting", route |-> "kernel", entity |-> idea_id,
                       file_type |-> file_type, selection |-> selection,
                       stored_content |-> stored_content,
                       actual_start |-> anchor.start, actual_end |-> anchor.end,
                       edit_id |-> next_edit + 1, session_id |-> session_id,
                       status |-> 0, detail |-> "none"]]
                 /\ UNCHANGED <<kernel_files, objective_files>>
  /\ UNCHANGED <<resolver_vars, concept_vars, sse_vars>>

\* agent.py kernel_file_selection_action, from the LLM call's return to the response
KernelSelectionFinish(r, outcome) ==
  /\ req[r].pc = "awaiting"
  /\ req[r].route = "kernel"
  /\ LET replacement_text == CleanReplacement(Coach(outcome))
         edit == AgentEditEvent(req[r].edit_id, <<"kernel", req[r].file_type>>,
                                req[r].actual_start, req[r].actual_end, replacement_text)
     IN /\ session_messages' = Append(session_messages,
             NewMessage(req[r].session_id, "agent", "Selection Edit", clock + 1))
        /\ sessions' = TouchSession(sessions, req[r].session_id, clock + 1)
        /\ clock' = clock + 1
        /\ queues' = EmitEvent(idea_subscribers, req[r].entity, edit)
  \* the response {edit_id, session_id}; the handler's locals are gone
  /\ req' = [req EXCEPT ![r].pc = "done", ![r].status = 200,
                         ![r].selection = NoSelection, ![r].stored_content = <<>>]
  /\ UNCHANGED <<resolver_vars, concept_vars, kernel_files, objective_files, idea_subscribers,
                 objective_subscribers, conn, emitting, next_edit>>

\* objectives.py objective_file_selection_action, up to the awaited LLM call
ObjectiveSelectionStart(r, user, objective_id, selection, session_ref) ==
  /\ req[r].pc = "idle"
  /\ r > 1 => req[r - 1].pc # "idle"        \* requests are numbered as they arrive
  /\ IF UserRole(user) # "org_admin" THEN
       /\ req' = [req EXCEPT ![r] = Failed(403, "Only organization admins")]
       /\ UNCHANGED <<store_vars, next_edit>>
     ELSE IF objective_id \notin Objectives THEN
       /\ req' = [req EXCEPT ![r] = Failed(404, "Objective not found")]
       /\ UNCHANGED <<store_vars, next_edit>>
     ELSE IF EntityOrg(objective_id) # UserOrg(user) THEN
       /\ req' = [req EXCEPT ![r] = Failed(403, "Access denied")]
       /\ UNCHANGED <<store_vars, next_edit>>
     ELSE IF objective_id \notin DOMAIN objective_files THEN
       /\ req' = [req EXCEPT ![r] = Failed(404, "Objective file not found")]
       /\ UNCHANGED <<store_vars, next_edit>>
     ELSE
       LET stored_content == objective_files[objective_id]
           anchor == ObjectiveAnchor(stored_content, selection)
       IN IF ~anchor.found THEN
            /\ req' = [req EXCEPT ![r] =
                 [Failed(400, "Could not locate selected text")
                    EXCEPT !.selection = [NoSelection EXCEPT !.text = selection.text],
                                !.stored_content = stored_content]]
            /\ UNCHANGED <<store_vars, next_edit>>
          ELSE IF session_ref.form = "malformed" THEN
            /\ req' = [req EXCEPT ![r] = Failed(500, "ValueError")]
            /\ UNCHANGED <<store_vars, next_edit>>
          ELSE IF /\ session_ref.form = "uuid"
                  /\ \/ session_ref.id \notin 1..Len(sessions)
                     \/ sessions[session_ref.id].objective_id # objective_id THEN
            /\ req' = [req EXCEPT ![r] = Failed(404, "Session not found")]
            /\ UNCHANGED <<store_vars, next_edit>>
          ELSE
            LET table == IF session_ref.form = "uuid" THEN sessions
                         ELSE Append(sessions, NewSession("none", objective_id, user,
                                                          "objective", "none", clock + 1))
                session_id == IF session_ref.form = "uuid" THEN session_ref.id
                              ELSE Len(sessions) + 1
            IN /\ next_edit' = next_edit + 1
               /\ session_messages' = Append(session_messages,
                    NewMessage(session_id, "user", "Selection Action", clock + 2))
               /\ sessions' = TouchSession(table, session_id, clock + 2)
               /\ clock' = clock + 2
               /\ req' = [req EXCEPT ![r] =
                    [pc |-> "awaiting", route |-> "objective", entity |-> objective_id,
                     file_type |-> "none", selection |-> selection,
                     stored_content |-> stored_content,
                     actual_start |-> anchor.start, actual_end |-> anchor.end,
                     edit_id |-> next_edit + 1, session_id |-> session_id,
                     status |-> 0, detail |-> "none"]]
               /\ UNCHANGED <<kernel_files, objective_files>>
  /\ UNCHANGED <<resolver_vars, concept_vars, sse_vars>>

\* objectives.py objective_file_selection_action, from the LLM call's return to the response
ObjectiveSelectionFinish(r, outcome) ==
  /\ req[r].pc = "awaiting"
  /\ req[r].route = "objective"
  /\ LET replacement_text == CleanReplacement(Coach(outcome))
         edit == AgentEditEvent(req[r].edit_id, <<"objective">>,
                                req[r].actual_start, req[r].actual_end, replacement_text)
     IN /\ session_messages' = Append(session_messages,
             NewMessage(req[r].session_id, "agent", "Selection Edit", clock + 1))
        /\ sessions' = TouchSession(sessions, req[r].session_id, clock + 1)
        /\ clock' = clock + 1
        /\ queues' = EmitEvent(objective_subscribers, req[r].entity, edit)
  \* the response {edit_id, session_id}; the handler's locals are gone
  /\ req' = [req EXCEPT ![r].pc = "done", ![r].status = 200,
                         ![r].selection = NoSelection, ![r].stored_content = <<>>]
  /\ UNCHANGED <<resolver_vars, concept_vars, kernel_files, objective_files, idea_subscribers,
                 objective_subscribers, conn, emitting, next_edit>>

\* --------------------------------------------------------- specifications
Next ==
  \/ \E r \in Reqs, user \in Users, idea_id \in RequestIdeas, file_type \in RequestFileTypes,
        selection \in Selections, session_ref \in SessionRefs :
       KernelSelectionStart(r, user, idea_id, file_type, selection, session_ref)
  \/ \E r \in Reqs, outcome \in LlmOutcomes : KernelSelectionFinish(r, outcome)
  \/ \E r \in Reqs, user \in Users, objective_id \in RequestObjectives,
        selection \in Selections, session_ref \in SessionRefs :
       ObjectiveSelectionStart(r, user, objective_id, selection, session_ref)
  \/ \E r \in Reqs, outcome \in LlmOutcomes : ObjectiveSelectionFinish(r, outcome)
  \/ \E c \in Conns, e \in Ideas : Subscribe(c, "idea", e)
  \/ \E c \in Conns, e \in Objectives : Subscribe(c, "objective", e)
  \/ \E c \in Conns : Disconnect(c)

Spec == Init /\ [][Next]_vars

NextResolve == ResolveInputs

SpecResolve == InitResolve /\ [][NextResolve]_vars

SpecDrift == InitDrift /\ [][NextResolve]_vars

\* ------------------------------------------- calls on the kernel files
\* what a concurrent writer may store in a kernel file
UpdateDocs == { <<"a">>, <<"b", "-", " ", "a">> }

\* kernel_file.py update: the UPDATE of the row's content
KernelFileUpdate(idea_id, file_type, content, user_id) ==
  /\ kernel_files' = [k \in DOMAIN kernel_files |->
                        IF k = <<idea_id, file_type>> THEN content ELSE kernel_files[k]]
  /\ call' = [op |-> "update", idea_id |-> idea_id, file_type |-> file_type,
              agent_type |-> "none", user_id |-> user_id,
              result |-> IF <<idea_id, file_type>> \in DOMAIN kernel_files THEN 1 ELSE 0]
  /\ UNCHANGED <<resolver_vars, objective_files, sessions, session_messages, clock, sse_vars,
                 req, next_edit, ideas, idea_collaborators, is_complete, evaluation>>

\* a selection action on a kernel file with a writer at work on the file
NextLostUpdate ==
  \/ \E r \in Reqs, selection \in Selections :
       KernelSelectionStart(r, "sally", "idea1", "summary", selection, [form |-> "absent", id |-> 0])
  \/ \E r \in Reqs, outcome \in LlmOutcomes : KernelSelectionFinish(r, outcome)
  \/ \E content \in UpdateDocs : KernelFileUpdate("idea1", "summary", content, "sam")
  \/ \E c \in Conns : Subscribe(c, "idea", "idea1")

SpecLostUpdate == Init /\ [][NextLostUpdate]_vars

\* kernel_file.py mark_complete: the UPDATE of the row's flag, and the get
KernelMarkComplete(idea_id, file_type) ==
  /\ is_complete' = [k \in DOMAIN is_complete |->
                       IF k = <<idea_id, file_type>> THEN TRUE ELSE is_complete[k]]
  /\ call' = [op |-> "mark_complete", idea_id |-> idea_id, file_type |-> file_type,
              agent_type |-> "none", user_id |-> "none",
              result |-> IF <<idea_id, file_type>> \in DOMAIN is_complete THEN 1 ELSE 0]
  /\ UNCHANGED <<resolver_vars, store_vars, sse_vars, req, next_edit,
                 ideas, idea_collaborators, evaluation>>

\* kernel_file.py mark_incomplete
KernelMarkIncomplete(idea_id, file_type) ==
  /\ is_complete' = [k \in DOMAIN is_complete |->
                       IF k = <<idea_id, file_type>> THEN FALSE ELSE is_complete[k]]
  /\ call' = [op |-> "mark_incomplete", idea_id |-> idea_id, file_type |-> file_type,
              agent_type |-> "none", user_id |-> "none",
              result |-> IF <<idea_id, file_type>> \in DOMAIN is_complete THEN 1 ELSE 0]
  /\ UNCHANGED <<resolver_vars, store_vars, sse_vars, req, next_edit,
                 ideas, idea_collaborators, evaluation>>

\* get_completion_count counting the rows of every idea
GetCompletionCountAllIdeas(flags, idea_id) ==
  Cardinality({k \in DOMAIN flags : flags[k]})

\* kernel_file.py get_completion_count: COUNT(*) of the idea's rows flagged complete
GetCompletionCount(flags, idea_id) ==
  Cardinality({k \in DOMAIN flags : k[1] = idea_id /\ flags[k]})

\* ---------------------------------------------------- calls on the ideas
\* organizations an idea can be created in
Orgs == {ACME, "globex"}

\* the ids uuid4() gives to new ideas, in the order of their creation
IdeaPool == <<"idea2", "idea3", "idea4">>
IdeaIds == Ideas \cup {IdeaPool[n] : n \in 1..Len(IdeaPool)}

\* migrations.py KERNEL_FILE_TEMPLATES: the heading a new file starts with
KERNEL_FILE_TEMPLATES(file_type) == <<"#">>

\* initialize_all leaving out the last file type
InitializeAllButLast(idea_id) ==
  { [idea_id |-> idea_id, file_type |-> file_type,
     content |-> KERNEL_FILE_TEMPLATES(file_type), is_complete |-> FALSE]
    : file_type \in KERNEL_FILE_TYPES \ {"coherent_steps"} }

\* kernel_file.py initialize_all: the rows inserted for a new idea
InitializeAll(idea_id) ==
  { [idea_id |-> idea_id, file_type |-> file_type,
     content |-> KERNEL_FILE_TEMPLATES(file_type), is_complete |-> FALSE]
    : file_type \in KERNEL_FILE_TYPES }

\* idea.py get: the row, if there is one
IdeaGet(table, idea_id) ==
  IF idea_id \in DOMAIN table THEN <<table[idea_id]>> ELSE <<>>

\* list_for_user without the status filter
ListForUserWithArchived(table, collaborators, org_id, user_id) ==
  { i \in DOMAIN table :
      /\ table[i].org_id = org_id
      /\ \/ table[i].creator_id = user_id
         \/ <<i, user_id>> \in collaborators }

\* idea.py list_for_user: SELECT DISTINCT i.* over the LEFT JOIN with the
\* collaborators ("none" stands for the NULLs of an idea without any)
ListForUser(table, collaborators, org_id, user_id) ==
  LET joined == {<<c[1], c[2]>> : c \in {x \in collaborators : x[1] \in DOMAIN table}}
                \cup {<<i, "none">> : i \in {x \in DOMAIN table :
                                                \A c \in collaborators : c[1] # x}}
      selected == { row \in joined :
                      /\ table[row[1]].org_id = org_id
                      /\ table[row[1]].status # "archived"
                      /\ \/ table[row[1]].creator_id = user_id
                         \/ row[2] = user_id }
  IN { row[1] : row \in selected }

\* ideas.py create_idea: idea.py create, then synchronizations.py on_idea_created
CreateIdea(org_id, user_id) ==
  LET created == Cardinality(DOMAIN ideas) - Cardinality(Ideas)
      idea_id == IdeaPool[created + 1]
      rows == InitializeAll(idea_id)
      keys == {<<row.idea_id, row.file_type>> : row \in rows}
      RowOf(k) == CHOOSE row \in rows : <<row.idea_id, row.file_type>> = k
  IN /\ created < MaxNewIdeas
     /\ ideas' = [i \in DOMAIN ideas \cup {idea_id} |->
                    IF i = idea_id
                      THEN [org_id |-> org_id, creator_id |-> user_id, status |-> "draft",
                            kernel_completion |-> 0]
                      ELSE ideas[i]]
     /\ idea_collaborators' = idea_collaborators \cup {<<idea_id, user_id>>}
     /\ kernel_files' = [k \in DOMAIN kernel_files \cup keys |->
                           IF k \in keys THEN RowOf(k).content ELSE kernel_files[k]]
     /\ is_complete' = [k \in DOMAIN is_complete \cup keys |->
                          IF k \in keys THEN RowOf(k).is_complete ELSE is_complete[k]]
     /\ call' = [op |-> "on_idea_created", idea_id |-> idea_id, file_type |-> "none",
                 agent_type |-> "none", user_id |-> user_id, result |-> Cardinality(rows)]
     /\ UNCHANGED <<resolver_vars, objective_files, sessions, session_messages, clock,
                    sse_vars, req, next_edit, evaluation>>

\* ideas.py archive_idea: the checks, then idea.py archive
ArchiveIdea(user, idea_id) ==
  LET status == IF idea_id \notin DOMAIN ideas THEN 404
                ELSE IF ideas[idea_id].org_id # UserOrg(user) THEN 403
                ELSE 200
  IN /\ ideas' = IF status = 200 THEN [ideas EXCEPT ![idea_id].status = "archived"]
                                  ELSE ideas
     /\ call' = [op |-> "archive", idea_id |-> idea_id, file_type |-> "none",
                 agent_type |-> "none", user_id |-> user, result |-> status]
     /\ UNCHANGED <<resolver_vars, store_vars, sse_vars, req, next_edit,
                    idea_collaborators, is_complete, evaluation>>

\* ideas.py update_idea: only title and objective_id reach idea.py update
UpdateIdea(user, idea_id) ==
  LET status == IF idea_id \notin DOMAIN ideas THEN 404
                ELSE IF ideas[idea_id].org_id # UserOrg(user) THEN 403
                ELSE 200
  IN /\ call' = [op |-> "update_idea", idea_id |-> idea_id, file_type |-> "none",
                 agent_type |-> "none", user_id |-> user, result |-> status]
     /\ UNCHANGED <<resolver_vars, store_vars, sse_vars, req, next_edit,
                    ideas, idea_collaborators, is_complete, evaluation>>

\* ideas are created, edited and archived while their files are written and marked
NextIdeas ==
  \/ \E org_id \in Orgs, user \in Users : CreateIdea(org_id, user)
  \/ \E user \in Users, idea_id \in IdeaIds : ArchiveIdea(user, idea_id)
  \/ \E idea_id \in IdeaIds : UpdateIdea("sally", idea_id)
  \/ \E idea_id \in IdeaIds : KernelFileUpdate(idea_id, "summary", <<"a">>, "sam")
  \/ \E idea_id \in IdeaIds : KernelMarkComplete(idea_id, "challenge")
  \/ \E idea_id \in IdeaIds : KernelMarkIncomplete(idea_id, "challenge")

SpecIdeas == Init /\ [][NextIdeas]_vars

\* ------------------------------------------------ kernel completion
\* idea.py update_kernel_completion: its own COUNT(*) of the complete rows
CountComplete(flags, idea_id) ==
  Cardinality({k \in DOMAIN flags : k[1] = idea_id /\ flags[k] = TRUE})

\* synchronizations.py on_kernel_file_marked_complete: idea.py
\* update_kernel_completion stores the count in the idea's row
OnKernelFileMarkedComplete(idea_id, file_type) ==
  LET count == CountComplete(is_complete, idea_id)
  IN /\ ideas' = [i \in DOMAIN ideas |->
                    IF i = idea_id THEN [ideas[i] EXCEPT !.kernel_completion = count]
                                   ELSE ideas[i]]
     /\ call' = [op |-> "on_kernel_file_marked_complete", idea_id |-> idea_id,
                 file_type |-> file_type, agent_type |-> "none", user_id |-> "none",
                 result |-> count]
     /\ UNCHANGED <<resolver_vars, store_vars, sse_vars, req, next_edit,
                    idea_collaborators, is_complete, evaluation>>

\* the files marked in the model: all four of the seeded idea, the summary of the others
MarkedFiles == {k \in IdeaIds \X KERNEL_FILE_TYPES : k[1] \in Ideas \/ k[2] = "summary"}

\* files are marked and unmarked, and the completion sync runs, in any order
NextCompletion ==
  \/ CreateIdea(ACME, "sam")
  \/ \E k \in MarkedFiles : KernelMarkComplete(k[1], k[2])
  \/ \E k \in MarkedFiles : KernelMarkIncomplete(k[1], k[2])
  \/ \E idea_id \in IdeaIds : OnKernelFileMarkedComplete(idea_id, "summary")

SpecCompletion == Init /\ [][NextCompletion]_vars

\* -------------------------------------------------- agent evaluation
\* the agents evaluated in the model
EvaluatedFileTypes == {"challenge", "coherent_steps"}

\* challenge_agent.py, steps_agent.py COMPLETION_CRITERIA
COMPLETION_CRITERIA(file_type) ==
  IF file_type = "challenge" THEN {"specific", "measurable", "significant"}
                             ELSE {"concrete", "sequenced", "assignable"}

\* the length below which evaluate() does not ask the LLM
MinContentLength == 100

\* a run of n copies of character c
Repeat(c, n) == [k \in 1..n |-> c]

\* contents around the threshold, bare and wrapped in whitespace
EvaluatedContents ==
  { <<>>,
    Repeat(" ", MinContentLength + 1),
    Repeat("a", MinContentLength - 1),
    Repeat("a", MinContentLength),
    <<" ", "\n">> \o Repeat("a", MinContentLength - 1) \o <<"\n">>,
    <<" ">> \o Repeat("a", MinContentLength) \o <<"\n", " ">> }

\* what generate_json gives for a file type: it raises, or returns an object
\* (its set of items) holding a boolean for some of the criteria
EvaluationOutcomes(file_type) ==
  {[ok |-> FALSE, result |-> {}]}
  \cup { [ok |-> TRUE, result |-> {<<c, c \in yes>> : c \in present}]
         : present \in SUBSET COMPLETION_CRITERIA(file_type),
           yes \in SUBSET COMPLETION_CRITERIA(file_type) }

\* result.get(key, default) where a missing criterion counts as met
JsonGetDefaultTrue(result, key, default) ==
  IF \E item \in result : item[1] = key
    THEN (CHOOSE item \in result : item[1] = key)[2]
    ELSE TRUE

\* dict.get: result.get(key, default)
JsonGet(result, key, default) ==
  IF \E item \in result : item[1] = key
    THEN (CHOOSE item \in result : item[1] = key)[2]
    ELSE default

\* evaluate(), up to the awaited generate_json: short content returns at once
EvaluateStart(idea_id, file_type, content) ==
  /\ evaluation.pc # "awaiting"
  /\ evaluation' =
       [pc |-> IF content = <<>> \/ Len(Strip(content)) < MinContentLength
                 THEN "returned" ELSE "awaiting",
        idea_id |-> idea_id, file_type |-> file_type, content |-> content,
        outcome |-> [ok |-> FALSE, result |-> {}], is_complete |-> FALSE]
  /\ call' = [op |-> "evaluate", idea_id |-> idea_id, file_type |-> file_type,
              agent_type |-> AgentTypeOf(file_type), user_id |-> "none", result |-> 0]
  /\ UNCHANGED <<resolver_vars, store_vars, sse_vars, req, next_edit,
                 ideas, idea_collaborators, is_complete>>

\* evaluate(), from the return of generate_json: all the criteria, then mark_complete
EvaluateFinish(outcome) ==
  LET complete == /\ outcome.ok
                  /\ \A c \in COMPLETION_CRITERIA(evaluation.file_type) :
                       JsonGet(outcome.result, c, FALSE)
      key == <<evaluation.idea_id, evaluation.file_type>>
  IN /\ evaluation.pc = "awaiting"
     /\ outcome \in EvaluationOutcomes(evaluation.file_type)
     /\ evaluation' = [evaluation EXCEPT !.pc = "returned", !.outcome = outcome,
                                         !.is_complete = complete]
     /\ is_complete' = IF complete
                         THEN [k \in DOMAIN is_complete |->
                                 IF k = key THEN TRUE ELSE is_complete[k]]
                         ELSE is_complete
     /\ call' = [op |-> IF complete THEN "mark_complete" ELSE "evaluate",
                 idea_id |-> evaluation.idea_id, file_type |-> evaluation.file_type,
                 agent_type |-> AgentTypeOf(evaluation.file_type), user_id |-> "none",
                 result |-> IF complete THEN 1 ELSE 0]
     /\ UNCHANGED <<resolver_vars, store_vars, sse_vars, req, next_edit,
                    ideas, idea_collaborators>>

\* the files of the seeded idea are evaluated one after the other
NextEvaluate ==
  \/ \E file_type \in EvaluatedFileTypes, content \in EvaluatedContents :
       EvaluateStart("idea1", file_type, content)
  \/ \E outcome \in UNION {EvaluationOutcomes(file_type) : file_type \in EvaluatedFileTypes} :
       EvaluateFinish(outcome)

SpecEvaluate == Init /\ [][NextEvaluate]_vars

\* ------------------------------------------ the SSE event generators
\* sse.py event_generator: the item it yields to the response, 0 standing
\* for an item that carries no edit ('connected', the keepalive comment)
Yielded(c, item, edit_id) ==
  [op |-> "yield", idea_id |-> conn'[c].entity, file_type |-> item,
   agent_type |-> conn'[c].kind, user_id |-> "none", result |-> edit_id]

\* sse.py event_generator, from the request to its first yield: the queue is
\* subscribed, then the generator is parked at the yield of 'connected'
EventGeneratorStart(c, kind, entity) ==
  /\ conn[c].state = "new"
  /\ c > 1 => conn[c - 1].state # "new"
  /\ IF kind = "idea"
       THEN /\ idea_subscribers' = AddSubscriber(idea_subscribers, entity, c)
            /\ UNCHANGED objective_subscribers
       ELSE /\ objective_subscribers' = AddSubscriber(objective_subscribers, entity, c)
            /\ UNCHANGED idea_subscribers
  /\ conn' = [conn EXCEPT ![c] = [state |-> "yielding", kind |-> kind, entity |-> entity]]
  /\ call' = Yielded(c, "connected", 0)
  /\ UNCHANGED <<resolver_vars, store_vars, queues, emitting, req, next_edit,
                 ideas, idea_collaborators, is_complete, evaluation>>

\* event_generator, resumed from a yield once the item was sent: it awaits
\* queue.get(), which returns at once when an event is waiting
EventGeneratorResume(c) ==
  /\ conn[c].state = "yielding"
  /\ IF queues[c] # <<>>
       THEN /\ queues' = [queues EXCEPT ![c] = Tail(@)]
            /\ UNCHANGED conn
            /\ call' = Yielded(c, queues[c][1].event_type, queues[c][1].edit_id)
       ELSE /\ conn' = [conn EXCEPT ![c].state = "open"]
            /\ UNCHANGED <<queues, call>>
  /\ UNCHANGED <<resolver_vars, store_vars, idea_subscribers, objective_subscribers,
                 emitting, req, next_edit, ideas, idea_collaborators, is_complete, evaluation>>

\* event_generator, woken from queue.get() by an event or by the 30 s
\* timeout: it yields the event or the keepalive comment
EventGeneratorWake(c) ==
  /\ conn[c].state = "open"
  /\ queues' = [queues EXCEPT ![c] = IF @ # <<>> THEN Tail(@) ELSE @]
  /\ conn' = [conn EXCEPT ![c].state = "yielding"]
  /\ call' = IF queues[c] # <<>>
               THEN Yielded(c, queues[c][1].event_type, queues[c][1].edit_id)
               ELSE Yielded(c, "keepalive", 0)
  /\ UNCHANGED <<resolver_vars, store_vars, idea_subscribers, objective_subscribers,
                 emitting, req, next_edit, ideas, idea_collaborators, is_complete, evaluation>>

\* event_generator, closed while it is parked at a yield (the response task
\* ended while sending): GeneratorExit is raised at the yield, which
\* 'except asyncio.CancelledError' does not catch, and there is no finally
EventGeneratorClose(c) ==
  /\ conn[c].state = "yielding"
  /\ conn' = [conn EXCEPT ![c] = [NewConn EXCEPT !.state = "closed"]]
  /\ UNCHANGED <<resolver_vars, concept_vars, store_vars, idea_subscribers,
                 objective_subscribers, queues, emitting, req, next_edit>>

\* clients connect to the event streams of the idea and of the objective,
\* read and go away while events are emitted
NextConnections ==
  \/ \E c \in Conns : EventGeneratorStart(c, "idea", "idea1")
  \/ \E c \in Conns : EventGeneratorStart(c, "objective", "obj1")
  \/ \E c \in Conns : EventGeneratorResume(c)
  \/ \E c \in Conns : EventGeneratorWake(c)
  \/ \E c \in Conns : Disconnect(c)
  \/ \E c \in Conns : EventGeneratorClose(c)
  \/ SseEmit("idea", "idea1")
  \/ SseEmit("objective", "obj1")

SpecConnections == Init /\ [][NextConnections]_vars

\* ------------------------------------------------ the completion sync
\* sse.py emit_completion_changed: the event it builds
CompletionChangedEvent(idea_id, file_type, complete, total_complete) ==
  [event_type |-> "completion_changed", idea_id |-> idea_id, file_type |-> file_type,
   is_complete |-> complete, total_complete |-> total_complete]

\* the coherence evaluation running already when one file is complete
NeedsCoherenceFromOne(kernel_completion) == kernel_completion >= 1

\* synchronizations.py: if idea.kernel_completion >= 2
NeedsCoherence(kernel_completion) == kernel_completion >= 2

\* synchronizations.py on_kernel_file_updated_async, once agent.evaluate() has
\* marked the file and returned is_complete: on_kernel_file_marked_complete_async
\* up to the awaited coherence evaluation
MarkedCompleteAsync(idea_id, file_type) ==
  LET marked == [k \in DOMAIN is_complete |->
                   IF k = <<idea_id, file_type>> THEN TRUE ELSE is_complete[k]]
      count == CountComplete(marked, idea_id)
      event == CompletionChangedEvent(idea_id, file_type, TRUE, count)
  IN /\ evaluation.pc # "awaiting"
     /\ \A q \in 1..Len(queues) : Len(queues[q]) < MaxEmits
     /\ is_complete' = marked
     /\ ideas' = [i \in DOMAIN ideas |->
                    IF i = idea_id THEN [ideas[i] EXCEPT !.kernel_completion = count]
                                   ELSE ideas[i]]
     /\ queues' = IF idea_id \in DOMAIN ideas
                    THEN EmitEvent(idea_subscribers, idea_id, event) ELSE queues
     /\ evaluation' = [NoEvaluation EXCEPT
                         !.pc = IF idea_id \in DOMAIN ideas /\ NeedsCoherence(count)
                                  THEN "awaiting" ELSE "returned",
                         !.idea_id = idea_id, !.file_type = file_type]
     /\ call' = [op |-> "on_kernel_file_marked_complete_async", idea_id |-> idea_id,
                 file_type |-> file_type, agent_type |-> "none", user_id |-> "none",
                 result |-> count]
     /\ UNCHANGED <<resolver_vars, store_vars, idea_subscribers, objective_subscribers, conn,
                    emitting, req, next_edit, idea_collaborators>>

\* on_kernel_file_marked_complete_async, from the return of the coherence
\* evaluation: its result is dropped, its exception is logged
CoherenceFinish(ok) ==
  /\ evaluation.pc = "awaiting"
  /\ evaluation' = [evaluation EXCEPT !.pc = "returned", !.outcome.ok = ok]
  /\ call' = [op |-> "coherence_evaluate", idea_id |-> evaluation.idea_id,
              file_type |-> evaluation.file_type, agent_type |-> "coherence",
              user_id |-> "none", result |-> IF ok THEN 1 ELSE 0]
  /\ UNCHANGED <<resolver_vars, store_vars, sse_vars, req, next_edit,
                 ideas, idea_collaborators, is_complete>>

\* files of the seeded idea, and of an idea that does not exist, are found
\* complete while clients subscribe to the seeded idea
NextCompletionSync ==
  \/ \E idea_id \in {"idea1", "idea2"}, file_type \in KERNEL_FILE_TYPES :
       MarkedCompleteAsync(idea_id, file_type)
  \/ \E ok \in BOOLEAN : CoherenceFinish(ok)
  \/ SseSubscribe("idea", "idea1")

SpecCompletionSync == Init /\ [][NextCompletionSync]_vars

\* ------------------------------------------------------------ chat route
\* agent.py chat_with_agent, up to the awaited LLM call
ChatStart(r, user, idea_id, file_type, session_ref, create_new) ==
  /\ req[r].pc = "idle"
  /\ r > 1 => req[r - 1].pc # "idle"        \* requests are numbered as they arrive
  /\ IF idea_id \notin DOMAIN ideas THEN
       /\ req' = [req EXCEPT ![r] = Failed(404, "Idea not found")]
       /\ UNCHANGED store_vars
     ELSE IF ideas[idea_id].org_id # UserOrg(user) THEN
       /\ req' = [req EXCEPT ![r] = Failed(403, "Access denied")]
       /\ UNCHANGED store_vars
     ELSE IF file_type \notin KERNEL_FILE_TYPES THEN
       /\ req' = [req EXCEPT ![r] = Failed(400, "Invalid file type")]
       /\ UNCHANGED store_vars
     ELSE IF session_ref.form = "malformed" THEN
       \* UUID(request.session_id) raises ValueError: the generic handler
       /\ req' = [req EXCEPT ![r] = Failed(500, "ValueError")]
       /\ UNCHANGED store_vars
     ELSE IF session_ref.form = "uuid" /\ session_ref.id \notin 1..Len(sessions) THEN
       /\ req' = [req EXCEPT ![r] = Failed(404, "Session not found")]
       /\ UNCHANGED store_vars
     ELSE
       LET agent_type == AgentTypeOf(file_type)
           got == IF session_ref.form = "uuid" THEN <<sessions, session_ref.id>>
                  ELSE IF create_new
                    THEN <<Append(sessions, NewSession(idea_id, "none", user, agent_type,
                                                       file_type, clock + 1)),
                           Len(sessions) + 1>>
                    ELSE GetOrCreate(sessions, idea_id, user, agent_type, file_type, clock + 1)
           table == got[1]
           session_id == got[2]
       IN IF <<idea_id, file_type>> \notin DOMAIN kernel_files THEN
            /\ req' = [req EXCEPT ![r] = Failed(404, "Kernel file not found")]
            /\ sessions' = table
            /\ clock' = clock + 1
            /\ UNCHANGED <<kernel_files, objective_files, session_messages>>
          ELSE
            /\ session_messages' = Append(session_messages,
                 NewMessage(session_id, "user", "Chat Message", clock + 2))
            /\ sessions' = TouchSession(table, session_id, clock + 2)
            /\ clock' = clock + 2
            /\ req' = [req EXCEPT ![r] =
                 [IdleReq EXCEPT !.pc = "awaiting", !.route = "chat", !.entity = idea_id,
                                 !.file_type = file_type, !.session_id = session_id]]
            /\ UNCHANGED <<kernel_files, objective_files>>
  /\ UNCHANGED <<resolver_vars, concept_vars, sse_vars, next_edit>>

\* agent.py chat_with_agent, from the LLM call's return to the response
ChatFinish(r, outcome) ==
  /\ req[r].pc = "awaiting"
  /\ req[r].route = "chat"
  /\ session_messages' = Append(session_messages,
       NewMessage(req[r].session_id, "agent",
                  IF outcome.ok THEN "Chat Response" ELSE "Apology", clock + 1))
  /\ sessions' = TouchSession(sessions, req[r].session_id, clock + 1)
  /\ clock' = clock + 1
  \* the response {response, session_id, is_complete, agent_type}
  /\ req' = [req EXCEPT ![r].pc = "done", ![r].status = 200]
  /\ UNCHANGED <<resolver_vars, concept_vars, kernel_files, objective_files, sse_vars, next_edit>>

NextChat ==
  \/ \E r \in Reqs, user \in Users, idea_id \in RequestIdeas, file_type \in RequestFileTypes,
        session_ref \in SessionRefs, create_new \in BOOLEAN :
       ChatStart(r, user, idea_id, file_type, session_ref, create_new)
  \/ \E r \in Reqs, outcome \in LlmOutcomes : ChatFinish(r, outcome)

SpecChat == Init /\ [][NextChat]_vars

\* ------------------------------------------- calls on the session concept
\* the (agent_type, file_type) pairs the routes open sessions with: a kernel
\* file agent with its file type, the coherence agent with none
SessionKeys == {<<AgentTypeOf(ft), ft>> : ft \in {"summary"}} \cup {<<"coherence", "none">>}

MessageRoles == {"user", "agent"}

\* session.py add_message: the INSERT of the message and the UPDATE of the
\* session's last_active, both with the same now
AddMessage(session_id, role, content) ==
  /\ session_messages' = Append(session_messages, NewMessage(session_id, role, content, clock + 1))
  /\ sessions' = TouchSession(sessions, session_id, clock + 1)
  /\ clock' = clock + 1

\* session.py create
SessionCreate(idea_id, user_id, agent_type, file_type) ==
  /\ Len(sessions) < MaxSessions
  /\ sessions' = Append(sessions, NewSession(idea_id, "none", user_id, agent_type, file_type, clock + 1))
  /\ clock' = clock + 1
  /\ call' = [op |-> "create", idea_id |-> idea_id, file_type |-> file_type,
              agent_type |-> agent_type, user_id |-> user_id, result |-> Len(sessions) + 1]
  /\ UNCHANGED <<resolver_vars, kernel_files, objective_files, session_messages, sse_vars,
                 req, next_edit, ideas, idea_collaborators, is_complete, evaluation>>

\* session.py create_for_objective
SessionCreateForObjective(objective_id, user_id) ==
  /\ Len(sessions) < MaxSessions
  /\ sessions' = Append(sessions, NewSession("none", objective_id, user_id, "objective", "none", clock + 1))
  /\ clock' = clock + 1
  /\ call' = [op |-> "create_for_objective", idea_id |-> "none", file_type |-> "none",
              agent_type |-> "objective", user_id |-> user_id, result |-> Len(sessions) + 1]
  /\ UNCHANGED <<resolver_vars, kernel_files, objective_files, session_messages, sse_vars,
                 req, next_edit, ideas, idea_collaborators, is_complete, evaluation>>

\* session.py get_or_create
SessionGetOrCreate(idea_id, user_id, agent_type, file_type) ==
  LET got == GetOrCreate(sessions, idea_id, user_id, agent_type, file_type, clock + 1)
  IN /\ Len(got[1]) <= MaxSessions
     /\ sessions' = got[1]
     /\ clock' = IF got[1] = sessions THEN clock ELSE clock + 1
     /\ call' = [op |-> "get_or_create", idea_id |-> idea_id, file_type |-> file_type,
                 agent_type |-> agent_type, user_id |-> user_id, result |-> got[2]]
     /\ UNCHANGED <<resolver_vars, kernel_files, objective_files, session_messages, sse_vars,
                    req, next_edit, ideas, idea_collaborators, is_complete, evaluation>>

\* session.py add_message on an existing session
SessionAddMessage(session_id, role) ==
  /\ session_id \in 1..Len(sessions)
  /\ Len(session_messages) < MaxSessionMessages
  /\ AddMessage(session_id, role, "Chat Message")
  /\ call' = [op |-> "add_message", idea_id |-> sessions[session_id].idea_id,
              file_type |-> sessions[session_id].file_type,
              agent_type |-> sessions[session_id].agent_type,
              user_id |-> sessions[session_id].user_id, result |-> session_id]
  /\ UNCHANGED <<resolver_vars, kernel_files, objective_files, sse_vars,
                 req, next_edit, ideas, idea_collaborators, is_complete, evaluation>>

NextSessions ==
  \/ \E i \in Ideas, u \in Users, k \in SessionKeys : SessionCreate(i, u, k[1], k[2])
  \/ \E o \in Objectives, u \in Users : SessionCreateForObjective(o, u)
  \/ \E i \in Ideas, u \in Users, k \in SessionKeys : SessionGetOrCreate(i, u, k[1], k[2])
  \/ \E n \in 1..MaxSessions, role \in MessageRoles : SessionAddMessage(n, role)

SpecSessions == Init /\ [][NextSessions]_vars

\* ------------------------------------------------------- message history
\* session.py get_history: the default of its limit parameter
HistoryLimit == 50

\* the rows of one session, in table order (WHERE session_id = ?)
RECURSIVE MessagesOf(_, _)
MessagesOf(table, session_id) ==
  IF table = <<>> THEN <<>>
  ELSE IF Head(table).session_id = session_id
         THEN <<Head(table)>> \o MessagesOf(Tail(table), session_id)
         ELSE MessagesOf(Tail(table), session_id)

\* ORDER BY created_at ASC (no two rows of the model share a created_at)
RECURSIVE OrderByCreatedAt(_)
OrderByCreatedAt(rows) ==
  IF rows = <<>> THEN <<>>
  ELSE LET k == CHOOSE k \in 1..Len(rows) :
                  \A j \in 1..Len(rows) : rows[k].created_at <= rows[j].created_at
       IN <<rows[k]>> \o OrderByCreatedAt(SubSeq(rows, 1, k - 1) \o SubSeq(rows, k + 1, Len(rows)))

\* session.py get_history(session_id, limit)
GetHistoryLimited(table, session_id, limit) ==
  LET rows == OrderByCreatedAt(MessagesOf(table, session_id))
  IN SubSeq(rows, 1, Min(limit, Len(rows)))

\* session.py get_history(session_id), as every caller calls it
GetHistory(table, session_id) == GetHistoryLimited(table, session_id, HistoryLimit)

\* a conversation is opened: session.py create with the chat's arguments
HistoryOpenSession ==
  /\ Len(sessions) < MaxHistorySessions
  /\ sessions' = Append(sessions, NewSession("idea1", "none", "sally", "summary", "summary", clock + 1))
  /\ clock' = clock + 1
  /\ call' = [op |-> "create", idea_id |-> "idea1", file_type |-> "summary",
              agent_type |-> "summary", user_id |-> "sally", result |-> Len(sessions) + 1]
  /\ UNCHANGED <<resolver_vars, kernel_files, objective_files, session_messages, sse_vars,
                 req, next_edit, ideas, idea_collaborators, is_complete, evaluation>>

\* the next message of a conversation: user and agent take turns; the first
\* session is the long conversation, the others stay short
HistoryAddMessage(session_id) ==
  LET sent == Len(MessagesOf(session_messages, session_id))
  IN /\ session_id \in 1..Len(sessions)
     /\ sent < (IF session_id = 1 THEN MaxHistoryMessages ELSE MaxOtherMessages)
     /\ AddMessage(session_id, IF sent % 2 = 0 THEN "user" ELSE "agent", "Chat Message")
     /\ call' = [op |-> "add_message", idea_id |-> "idea1", file_type |-> "summary",
                 agent_type |-> "summary", user_id |-> "sally", result |-> session_id]
     /\ UNCHANGED <<resolver_vars, kernel_files, objective_files, sse_vars,
                    req, next_edit, ideas, idea_collaborators, is_complete, evaluation>>

NextHistory ==
  \/ HistoryOpenSession
  \/ \E n \in 1..MaxHistorySessions : HistoryAddMessage(n)

SpecHistory == Init /\ [][NextHistory]_vars

\* ------------------------------------------------- vocabulary of the claims
\* t occurs in s at offset i
OccursAt(s, t, i) ==
  /\ i >= 0 /\ i + Len(t) <= Len(s)
  /\ \A k \in 1..Len(t) : s[i + k] = t[k]

IsSubstring(t, s) == \E i \in 0..Len(s) : OccursAt(s, t, i)

\* the first occurrence of t in s is at offset i
FirstOccursAt(s, t, i) == OccursAt(s, t, i) /\ \A j \in 0..(i - 1) : ~OccursAt(s, t, j)

\* offset of the first character of the line that holds offset p
StartOfLine(s, p) ==
  IF \E k \in 1..p : s[k] = "\n"
    THEN CHOOSE k \in 1..p : s[k] = "\n" /\ \A m \in (k + 1)..p : s[m] # "\n"
    ELSE 0

\* the text between the start of p's line and p
LinePrefix(s, p) == [k \in 1..(p - StartOfLine(s, p)) |-> s[StartOfLine(s, p) + k]]

AllSpace(s, from) == from <= Len(s) /\ \A k \in from..Len(s) : s[k] \in {" ", "\t", "\n", "\r"}

\* digits, '.', one or more whitespace
NumberedMarker(m) ==
  \E d \in 1..Len(m) :
    /\ \A k \in 1..d : m[k] \in {"0", "1", "2", "3", "4", "5", "6", "7", "8", "9"}
    /\ d < Len(m) /\ m[d + 1] = "."
    /\ AllSpace(m, d + 2)

\* '*', '-' or '+', one or more whitespace
BulletMarker(m) == Len(m) >= 1 /\ m[1] \in {"*", "-", "+"} /\ AllSpace(m, 2)

InRange(res, s) == 0 <= res.start /\ res.start <= res.end /\ res.end <= Len(s)

\* ------------------------------------------------------------------ C1
\* C1: whenever the anchoring of either route does not fail, the range it
\* computes for the agent_edit event satisfies 0 <= start <= end <= len(stored).
C1_RangeWithinDocument ==
  resolved => /\ kres.found => InRange(kres, in_stored)
              /\ ores.found => InRange(ores, in_stored)

\* ------------------------------------------------------------------ C2
\* C2 as stated: a non-empty claim whose first occurrence in stored is at i
\* resolves to exactly (i, i + len(claim)).
C2_ExactMatchIdentity ==
  resolved /\ in_claim # <<>> =>
    \A i \in 0..Len(in_stored) :
      FirstOccursAt(in_stored, in_claim, i) =>
        kres = [found |-> TRUE, start |-> i, end |-> i + Len(in_claim)]

\* C2 amended: a non-empty claim whose first occurrence in stored is at i
\* resolves to exactly (i, i + len(claim)) unless the text between the start
\* of i's line and i is a list marker; then the start is the start of the line.
C2_ExactMatchUnlessMarker ==
  resolved /\ in_claim # <<>> =>
    \A i \in 0..Len(in_stored) :
      FirstOccursAt(in_stored, in_claim, i) =>
        IF NumberedMarker(LinePrefix(in_stored, i)) \/ BulletMarker(LinePrefix(in_stored, i))
          THEN kres.found /\ kres.start = StartOfLine(in_stored, i)
          ELSE kres = [found |-> TRUE, start |-> i, end |-> i + Len(in_claim)]

\* a later occurrence exists, the first one is not at the document start
C2_Witness ==
  /\ resolved /\ in_claim # <<>>
  /\ FirstOccursAt(in_stored, in_claim, 1)
  /\ OccursAt(in_stored, in_claim, 3)
  /\ kres = [found |-> TRUE, start |-> 1, end |-> 1 + Len(in_claim)]

\* ------------------------------------------------------------------ C3
\* C3: the anchoring fails exactly when the claim is neither a substring of
\* stored nor, whitespace-normalized, a substring of the normalized stored
\* text; otherwise it returns a range of two offsets with start <= end.
C3_NotFoundIff ==
  resolved =>
    /\ ~kres.found <=> /\ ~IsSubstring(in_claim, in_stored)
                       /\ ~IsSubstring(Normalize(in_claim), Normalize(in_stored))
    /\ kres.found => kres.start \in Nat /\ kres.end \in Nat /\ kres.start <= kres.end

\* a claim located only after normalization, whose end scan matches nothing
C3_Witness ==
  /\ resolved /\ kres.found /\ InRange(kres, in_stored)
  /\ Normalize(in_claim) # <<>>
  /\ ~IsSubstring(in_claim, in_stored)
  /\ \A k \in Len(in_claim)..Len(in_stored) :
       Normalize(Slice(in_stored, kres.start, kres.start + k)) # Normalize(in_claim)

\* ------------------------------------------------------------------ C4
\* C4: with p the match start, the resolved start is the start of p's line
\* if the text between that line start and p is exactly one numbered or one
\* bullet marker, and is p itself otherwise.
C4_MarkerExpansion ==
  resolved /\ kres.found =>
    LET p == MatchStart(in_stored, in_claim)
    IN kres.start = IF NumberedMarker(LinePrefix(in_stored, p)) \/ BulletMarker(LinePrefix(in_stored, p))
                      THEN StartOfLine(in_stored, p) ELSE p

\* a numbered marker in front of the match on a line of its own
C4_Witness ==
  /\ resolved /\ kres.found
  /\ NumberedMarker(LinePrefix(in_stored, MatchStart(in_stored, in_claim)))
  /\ kres.start = StartOfLine(in_stored, MatchStart(in_stored, in_claim))
  /\ kres.start < MatchStart(in_stored, in_claim)

\* ------------------------------------------------------------------ C5
\* the words ws appear in order, as whole consecutive words, among the words vs
WordsWithin(ws, vs) ==
  \E k \in 0..(Len(vs) - Len(ws)) : \A n \in 1..Len(ws) : vs[k + n] = ws[n]

\* C5: when stored holds the claimed words (two or more) separated by other
\* whitespace than in the claim, the anchoring succeeds and the resolved
\* slice, whitespace-normalized, equals the whitespace-normalized claim.
C5_WhitespaceInsensitive ==
  resolved /\ Len(Split(in_claim)) >= 2
           /\ WordsWithin(Split(in_claim), Split(in_stored))
           /\ ~IsSubstring(in_claim, in_stored) =>
    /\ kres.found
    /\ Normalize(Slice(in_stored, kres.start, kres.end)) = Normalize(in_claim)

\* ------------------------------------------------------------------ C6
\* C6: when the anchoring succeeds with (start, end), anchoring the text
\* stored[start:end] against the same stored gives (start, end) again.
C6_IdempotentReResolution ==
  resolved /\ kres.found =>
    KernelResolve(in_stored, Slice(in_stored, kres.start, kres.end)) = kres

\* ------------------------------------------------------------------ C7
\* C7: a non-empty claim whose first occurrence directly follows a list
\* marker M at the start of its line resolves to the slice M followed by
\* the claim: start at the line start, end at the end of the occurrence.
C7_MarkerAndContentSlice ==
  resolved /\ in_claim # <<>> =>
    \A i \in 0..Len(in_stored) :
      /\ FirstOccursAt(in_stored, in_claim, i)
      /\ NumberedMarker(LinePrefix(in_stored, i)) \/ BulletMarker(LinePrefix(in_stored, i))
      => /\ kres.found
         /\ kres.start = StartOfLine(in_stored, i)
         /\ kres.end = i + Len(in_claim)
         /\ Slice(in_stored, kres.start, kres.end) = LinePrefix(in_stored, i) \o in_claim

\* ------------------------------------------------------------------ C9
\* C9: on every (stored, selection text) the idea kernel-file route and the
\* objective-file route either both fail or compute the same (start, end).
C9_RoutesAgree == resolved => kres = ores

\* the routes agree on a claim found only after normalization and moved
\* back over a list marker
C9_Witness ==
  /\ resolved /\ kres.found /\ ores.found
  /\ ~IsSubstring(in_claim, in_stored)
  /\ ores.start < MatchStart(in_stored, in_claim)
  /\ ores.end > ores.start

\* ------------------------------------------------------------------ C8
\* the anchoring a request went through: its range, or its failure
Anchored(r) == req[r].pc = "awaiting" \/ req[r].detail = "Could not locate selected text"

AnchorResult(r) ==
  IF req[r].pc = "awaiting"
    THEN [found |-> TRUE, start |-> req[r].actual_start, end |-> req[r].actual_end]
    ELSE NotFound

\* C8: two selection-action requests against the same stored document with
\* the same selection text resolve to the same range, or both fail,
\* whatever start and end offsets they carry.
C8_OffsetsIgnored ==
  \A r1, r2 \in Reqs :
    /\ Anchored(r1) /\ Anchored(r2)
    /\ req[r1].stored_content = req[r2].stored_content
    /\ req[r1].selection.text = req[r2].selection.text
    => AnchorResult(r1) = AnchorResult(r2)

\* two requests in flight with the same text and different offsets, one of
\* them carrying offsets that do delimit the text in the stored document
C8_Witness ==
  \E r1, r2 \in Reqs :
    /\ req[r1].pc = "awaiting" /\ req[r2].pc = "awaiting"
    /\ req[r1].stored_content = req[r2].stored_content
    /\ req[r1].selection.text = req[r2].selection.text
    /\ req[r1].selection.start # req[r2].selection.start
    /\ Slice(req[r1].stored_content, req[r1].selection.start, req[r1].selection.end)
         = req[r1].selection.text
    /\ req[r1].actual_start # req[r1].selection.start

\* ------------------------------------------------------------------ C10
\* the connections subscribed to the entity of request r
SubscribedTo(r) ==
  {c \in Conns : /\ conn[c].state = "open"
                 /\ conn[c].entity = req[r].entity
                 /\ conn[c].kind = IF req[r].route = "kernel" THEN "idea" ELSE "objective"}

Responds(r) == req[r].pc # "done" /\ req'[r].pc = "done"

\* C10: a request that returns {edit_id, session_id} enqueues, in that step,
\* exactly one agent_edit 'replace' event with its resolved range and its
\* edit_id on each queue subscribed to its entity and nothing elsewhere; a
\* request that ends in an HTTP error, and every other step, enqueues nothing.
C10_OneEditPerResponse ==
  [][\A c \in Conns :
       IF \E r \in Reqs : Responds(r) /\ req'[r].status = 200 /\ c \in SubscribedTo(r)
         THEN \E r \in Reqs :
                /\ Responds(r) /\ req'[r].status = 200 /\ c \in SubscribedTo(r)
                /\ Len(queues'[c]) = Len(queues[c]) + 1
                /\ SubSeq(queues'[c], 1, Len(queues[c])) = queues[c]
                /\ LET e == queues'[c][Len(queues'[c])]
                   IN /\ e.event_type = "agent_edit"
                      /\ e.operation = "replace"
                      /\ e.range = <<req[r].actual_start, req[r].actual_end>>
                      /\ e.edit_id = req'[r].edit_id
                      /\ req'[r].edit_id = req[r].edit_id
         ELSE queues'[c] = queues[c] \/ queues'[c] = <<>>
    ]_vars

\* a request has answered 200 and its event sits on a subscriber's queue
C10_Witness ==
  \E r \in Reqs, c \in Conns :
    /\ req[r].pc = "done" /\ req[r].status = 200
    /\ c \in SubscribedTo(r)
    /\ \E k \in 1..Len(queues[c]) :
         /\ queues[c][k].edit_id = req[r].edit_id
         /\ queues[c][k].range = <<req[r].actual_start, req[r].actual_end>>

\* ------------------------------------------------------------------ C19
\* offsets of stored that hold a character of a word
WordOffsets(s) == {i \in 0..(Len(s) - 1) : s[i + 1] \notin {" ", "\t", "\n", "\r"}}

\* some text that normalizes to the same words as t starts at offset j of s
VariantAt(s, t, j) ==
  \E k \in j..Len(s) : Normalize(Slice(s, j, k)) = Normalize(t)

\* C19: whenever the claim occurs literally in stored, the match start is
\* its first literal occurrence (moved only by the list-marker expansion),
\* also when a whitespace variant of the claim occurs earlier in stored.
C19_FirstSuccessWins ==
  resolved /\ IsSubstring(in_claim, in_stored) =>
    \A i \in 0..Len(in_stored) :
      FirstOccursAt(in_stored, in_claim, i) =>
        /\ kres.found
        /\ MatchStart(in_stored, in_claim) = i
        /\ kres.start = IF NumberedMarker(LinePrefix(in_stored, i)) \/ BulletMarker(LinePrefix(in_stored, i))
                          THEN StartOfLine(in_stored, i) ELSE i

\* a whitespace variant of the claim at the start of stored, the literal
\* claim further on, and the range at the literal occurrence
C19_Witness ==
  /\ resolved /\ Normalize(in_claim) # <<>>
  /\ \E i \in 1..Len(in_stored) :
       /\ FirstOccursAt(in_stored, in_claim, i)
       /\ 0 \in WordOffsets(in_stored) /\ VariantAt(in_stored, in_claim, 0)
       /\ kres = [found |-> TRUE, start |-> i, end |-> i + Len(in_claim)]

\* ------------------------------------------------------------------ C20
\* the position, in the whitespace-normalized text, of the word character
\* at offset i of s: the word characters before it plus one joining space
\* for each word that ended before it
NormalizedPosition(s, i) ==
  Cardinality({j \in WordOffsets(s) : j < i})
    + Cardinality({j \in WordOffsets(s) : j < i /\ (j + 1) \notin WordOffsets(s) /\ j + 1 < i})

\* C20: on the whitespace-normalized path with a non-empty normalized claim
\* the walk stops at the offset of stored that holds the character at
\* position normalized_start of the normalized stored text.
C20_WalkMapsStart ==
  resolved /\ kres.found /\ ~IsSubstring(in_claim, in_stored) /\ Normalize(in_claim) # <<>> =>
    LET normalized_start == Find(Normalize(in_stored), Normalize(in_claim))
        p == MatchStart(in_stored, in_claim)
    IN p \in WordOffsets(in_stored) /\ NormalizedPosition(in_stored, p) = normalized_start

\* ------------------------------------------------------------------ C12
\* the sessions of the key (idea, agent_type, file_type)
KeySessions(table, idea_id, agent_type, file_type) ==
  {n \in DOMAIN table : /\ table[n].idea_id = idea_id
                        /\ table[n].agent_type = agent_type
                        /\ table[n].file_type = file_type}

\* C12: a get_or_create call returns the session of its key with the latest
\* last_active when the key has sessions, and then creates nothing; it
\* creates a session, the one it returns, only when the key has none. So a
\* key that had at most one session has exactly one after the call, and
\* that one is returned.
C12_GetOrCreateReturnsExisting ==
  [][call'.op = "get_or_create" =>
       LET before == KeySessions(sessions, call'.idea_id, call'.agent_type, call'.file_type)
           after == KeySessions(sessions', call'.idea_id, call'.agent_type, call'.file_type)
       IN /\ IF before # {}
               THEN /\ sessions' = sessions
                    /\ call'.result \in before
                    /\ \A m \in before : sessions[m].last_active <= sessions[call'.result].last_active
               ELSE /\ Len(sessions') = Len(sessions) + 1
                    /\ SubSeq(sessions', 1, Len(sessions)) = sessions
                    /\ after = {call'.result}
          /\ Cardinality(before) <= 1 => after = {call'.result}
    ]_vars

\* the key has two sessions, made by explicit create calls, and
\* get_or_create has returned the older one, which a message made the
\* latest active
C12_Witness ==
  /\ call.op = "get_or_create"
  /\ \E n \in KeySessions(sessions, call.idea_id, call.agent_type, call.file_type) :
       /\ n > call.result
       /\ sessions[n].last_active < sessions[call.result].last_active

\* ------------------------------------------------------------------ C13
\* the messages of session n in the order in which add_message stored them
AddedTo(n) == SelectSeq(session_messages, LAMBDA m : m.session_id = n)

\* C13: get_history(session) returns that session's messages, and only
\* that session's, in the order in which add_message was called for it.
C13_HistoryInOrder ==
  \A n \in 1..Len(sessions) : GetHistory(session_messages, n) = AddedTo(n)

\* ------------------------------------------------------------------ C14
\* session_messages grew by exactly one message, of session n and role
AppendsOne(n, role) ==
  /\ Len(session_messages') = Len(session_messages) + 1
  /\ SubSeq(session_messages', 1, Len(session_messages)) = session_messages
  /\ session_messages'[Len(session_messages')].session_id = n
  /\ session_messages'[Len(session_messages')].role = role

\* C14: a chat request appends the user's message to its session when it
\* passes validation, the agent's message to the same session when it
\* answers, and answers with that session's id; a request that fails
\* validation appends nothing; nothing else appends a message.
C14_ChatAppendsTwo ==
  [][LET accepted(r) == /\ req[r].pc = "idle" /\ req'[r].pc = "awaiting"
                        /\ req'[r].route = "chat"
                        /\ AppendsOne(req'[r].session_id, "user")
         answered(r) == /\ req[r].pc = "awaiting" /\ req[r].route = "chat"
                        /\ req'[r].pc = "done" /\ req'[r].status = 200
                        /\ req'[r].session_id = req[r].session_id
                        /\ AppendsOne(req[r].session_id, "agent")
         rejected(r) == /\ req[r].pc = "idle" /\ req'[r].pc = "done"
                        /\ req'[r].status # 200
                        /\ session_messages' = session_messages
     IN \E r \in Reqs : accepted(r) \/ answered(r) \/ rejected(r)
    ]_vars

\* two chat requests on one session have both answered, the second one's
\* user message stored before the first one's answer
C14_Witness ==
  \E r1, r2 \in Reqs :
    /\ r1 # r2
    /\ req[r1].route = "chat" /\ req[r1].pc = "done" /\ req[r1].status = 200
    /\ req[r2].route = "chat" /\ req[r2].pc = "done" /\ req[r2].status = 200
    /\ req[r1].session_id = req[r2].session_id
    /\ Len(session_messages) = 4
    /\ \A k \in 1..4 : /\ session_messages[k].session_id = req[r1].session_id
                        /\ session_messages[k].role = IF k <= 2 THEN "user" ELSE "agent"

\* ------------------------------------------------------------------ C11
\* the kernel file request r works on, as stored now
CurrentDocument(r) == kernel_files[<<req[r].entity, req[r].file_type>>]

\* C11: a selection action anchors its selection in the document it read
\* before the agent call; while the call is pending nothing of the request
\* changes, whatever is stored in the file meanwhile; and the answer emits
\* the range of that first anchoring to the subscribers.
C11_RangeFromSnapshot ==
  [][\A r \in Reqs :
       /\ req[r].pc = "idle" /\ req'[r].pc = "awaiting" =>
            /\ req'[r].stored_content = kernel_files[<<req'[r].entity, req'[r].file_type>>]
            /\ KernelResolve(req'[r].stored_content, req'[r].selection.text)
                 = [found |-> TRUE, start |-> req'[r].actual_start, end |-> req'[r].actual_end]
       /\ req[r].pc = "awaiting" /\ req'[r].pc = "awaiting" => req'[r] = req[r]
       /\ req[r].pc = "awaiting" /\ req'[r].pc = "done" =>
            /\ req'[r].status = 200
            /\ kernel_files' = kernel_files
            /\ \A c \in SubscribedTo(r) :
                 /\ Len(queues'[c]) = Len(queues[c]) + 1
                 /\ queues'[c][Len(queues'[c])].range = <<req[r].actual_start, req[r].actual_end>>
    ]_vars

\* an answered request whose emitted range, in the document as stored now,
\* holds none of the texts a selection can claim
C11_Witness ==
  \E r \in Reqs, c \in Conns :
    /\ req[r].pc = "done" /\ req[r].status = 200 /\ req[r].route = "kernel"
    /\ c \in SubscribedTo(r)
    /\ \E k \in 1..Len(queues[c]) :
         /\ queues[c][k].edit_id = req[r].edit_id
         /\ queues[c][k].range[2] <= Len(CurrentDocument(r))
         /\ \A t \in Texts :
              ~IsSubstring(t, Slice(CurrentDocument(r), queues[c][k].range[1], queues[c][k].range[2]))

\* ------------------------------------------------------------------ C15
\* the file types idea i has a kernel file of
FileTypesOf(table, i) == {k[2] : k \in {x \in DOMAIN table : x[1] = i}}

\* C15: when on_idea_created has run for an idea, the idea has exactly the
\* four kernel files summary, challenge, approach and coherent_steps, none of
\* them complete; and an update, mark_complete or mark_incomplete leaves
\* every idea with the files it had.
C15_FourKernelFiles ==
  [][/\ call'.op = "on_idea_created" =>
          /\ FileTypesOf(kernel_files', call'.idea_id)
               = {"summary", "challenge", "approach", "coherent_steps"}
          /\ Cardinality({k \in DOMAIN kernel_files' : k[1] = call'.idea_id}) = 4
          /\ DOMAIN is_complete' = DOMAIN kernel_files'
          /\ \A k \in DOMAIN is_complete' : k[1] = call'.idea_id => ~is_complete'[k]
     /\ call'.op \in {"update", "mark_complete", "mark_incomplete"} =>
          /\ DOMAIN kernel_files' = DOMAIN kernel_files
          /\ DOMAIN is_complete' = DOMAIN is_complete
          /\ \A i \in DOMAIN ideas' :
               FileTypesOf(kernel_files', i) = {"summary", "challenge", "approach", "coherent_steps"}
    ]_vars

\* a created idea whose summary was rewritten and whose challenge was marked
C15_Witness ==
  \E i \in DOMAIN ideas \ {"idea1"} :
    /\ call.op = "mark_complete" /\ call.idea_id = i
    /\ is_complete[<<i, "challenge">>]
    /\ kernel_files[<<i, "summary">>] = <<"a">>
    /\ Cardinality(FileTypesOf(kernel_files, i)) = 4

\* ------------------------------------------------------------------ C18
\* whether idea i is in what list_for_user returns to a user of an organization
Listed(i, org_id, user) == i \in ListForUser(ideas, idea_collaborators, org_id, user)

\* C18: list_for_user returns exactly the organization's ideas that are not
\* archived and have the user as creator or collaborator; an archived idea
\* stays archived, is listed for nobody and is still returned by get with
\* status 'archived'; an idea is not listed for a user who neither created
\* it nor collaborates on it.
C18_ListForUser ==
  [][/\ \A org_id \in {"acme", "globex"}, user \in {"sally", "sam"} :
          ListForUser(ideas', idea_collaborators', org_id, user)
            = { i \in DOMAIN ideas' :
                  /\ ideas'[i].org_id = org_id
                  /\ ideas'[i].status # "archived"
                  /\ ideas'[i].creator_id = user \/ <<i, user>> \in idea_collaborators' }
     /\ call'.op = "archive" /\ call'.result = 200 =>
          ideas'[call'.idea_id].status = "archived"
     /\ \A i \in DOMAIN ideas' :
          /\ i \in DOMAIN ideas /\ ideas[i].status = "archived" => ideas'[i].status = "archived"
          /\ ideas'[i].status = "archived" =>
               /\ Len(IdeaGet(ideas', i)) = 1
               /\ IdeaGet(ideas', i)[1].status = "archived"
     /\ \A org_id \in {"acme", "globex"}, user \in {"sally", "sam"} :
          \A i \in DOMAIN ideas' :
            \/ ideas'[i].status = "archived"
            \/ ideas'[i].creator_id # user /\ <<i, user>> \notin idea_collaborators'
            => ~Listed(i, org_id, user)'
    ]_vars

\* Sam's idea was just archived: Sally is listed hers, Sam nothing
C18_Witness ==
  \E i \in DOMAIN ideas \ {"idea1"} :
    /\ call.op = "archive" /\ call.idea_id = i /\ call.result = 200
    /\ ideas[i].creator_id = "sam" /\ ideas[i].status = "archived"
    /\ ListForUser(ideas, idea_collaborators, "acme", "sally") = {"idea1"}
    /\ ListForUser(ideas, idea_collaborators, "acme", "sam") = {}

\* ------------------------------------------------------------------ C16
\* the idea's kernel files that are marked complete in a table of flags
CompleteFilesOf(flags, i) ==
  {ft \in {"summary", "challenge", "approach", "coherent_steps"} :
     <<i, ft>> \in DOMAIN flags /\ flags[<<i, ft>>]}

\* C16: get_completion_count(idea) is the number of the idea's kernel files
\* marked complete, so marking a complete file again does not change it; and
\* when on_kernel_file_marked_complete has run for an idea, the idea's
\* kernel_completion is that number, between 0 and 4.
C16_CompletionCount ==
  [][/\ \A i \in {"idea1", "idea2", "idea3", "idea4"} :
          GetCompletionCount(is_complete', i) = Cardinality(CompleteFilesOf(is_complete', i))
     /\ /\ call'.op = "mark_complete"
        /\ call'.file_type \in CompleteFilesOf(is_complete, call'.idea_id)
        => GetCompletionCount(is_complete', call'.idea_id)
             = GetCompletionCount(is_complete, call'.idea_id)
     /\ call'.op = "on_kernel_file_marked_complete" /\ call'.idea_id \in DOMAIN ideas' =>
          /\ ideas'[call'.idea_id].kernel_completion
               = Cardinality(CompleteFilesOf(is_complete', call'.idea_id))
          /\ ideas'[call'.idea_id].kernel_completion \in 0..4
          /\ call'.result = ideas'[call'.idea_id].kernel_completion
    ]_vars

\* the sync has stored 4 for the seeded idea while another idea has a complete file
C16_Witness ==
  /\ call.op = "on_kernel_file_marked_complete" /\ call.idea_id = "idea1"
  /\ ideas["idea1"].kernel_completion = 4
  /\ GetCompletionCount(is_complete, "idea1") = 4
  /\ \E j \in DOMAIN ideas \ {"idea1"} : is_complete[<<j, "summary">>]

\* ------------------------------------------------------------------ C17
\* the content keeps at least 100 characters when the blanks around it are cut
LongEnough(content) ==
  \E a \in 1..Len(content) :
    /\ content[a] \notin {" ", "\t", "\n", "\r"}
    /\ \E b \in (a + 99)..Len(content) : content[b] \notin {" ", "\t", "\n", "\r"}

\* the LLM answered, and its answer holds true for each criterion of the file type
ReportsAllTrue(outcome, file_type) ==
  /\ outcome.ok
  /\ \A c \in (IF file_type = "challenge" THEN {"specific", "measurable", "significant"}
                ELSE IF file_type = "coherent_steps" THEN {"concrete", "sequenced", "assignable"}
                ELSE {}) :
       <<c, TRUE>> \in outcome.result

\* C17: an evaluate() that returns has marked its file complete exactly when
\* the content is long enough and the LLM reported every criterion true, and
\* returns is_complete accordingly; otherwise (content too short, the LLM
\* call raised, a criterion false or missing) no flag changes. No other
\* file's flag ever changes.
C17_EvaluateMarksIff ==
  [][evaluation'.pc = "returned" =>
       LET file == <<evaluation'.idea_id, evaluation'.file_type>>
           met == /\ LongEnough(evaluation'.content)
                  /\ ReportsAllTrue(evaluation'.outcome, evaluation'.file_type)
           marks == call'.op = "mark_complete" /\ call'.file_type = evaluation'.file_type
       IN /\ marks <=> met
          /\ evaluation'.is_complete <=> met
          /\ met => is_complete'[file]
          /\ ~met => is_complete' = is_complete
          /\ \A k \in DOMAIN is_complete' : k # file => is_complete'[k] = is_complete[k]
    ]_vars

\* a content of exactly 100 characters between blanks was marked complete
C17_Witness ==
  /\ evaluation.pc = "returned" /\ evaluation.is_complete
  /\ Len(evaluation.content) > 100
  /\ Len(Strip(evaluation.content)) = 100
  /\ is_complete[<<evaluation.idea_id, evaluation.file_type>>]
  /\ call.op = "mark_complete"

\* ------------------------------------------------------------------ C21
\* the lengths k, from the claim's length to the rest of the document, for
\* which the k characters from offset s have the words of the claim
EndOffsets(s) ==
  {k \in Len(in_claim)..(Len(in_stored) - s) :
     Split(Slice(in_stored, s, s + k)) = Split(in_claim)}

\* C21: with s the start after list-marker expansion and p the match start
\* before it, the end stays at p + len(claim) when stored[s:p+len(claim)] is
\* the claim or when no length k in len(claim)..len(stored)-s gives a slice
\* with the claim's words; otherwise the end is s + k for the smallest such k.
C21_FuzzyEnd ==
  resolved /\ kres.found =>
    LET s == kres.start
        first_end == MatchStart(in_stored, in_claim) + Len(in_claim)
    IN IF Slice(in_stored, s, first_end) = in_claim \/ EndOffsets(s) = {}
         THEN kres.end = first_end
         ELSE /\ kres.end - s \in EndOffsets(s)
              /\ \A k \in EndOffsets(s) : kres.end - s <= k

\* the end was moved, and more than one length was a candidate
C21_Witness ==
  /\ resolved /\ kres.found
  /\ Slice(in_stored, kres.start, MatchStart(in_stored, in_claim) + Len(in_claim)) # in_claim
  /\ Cardinality(EndOffsets(kres.start)) >= 2
  /\ kres.end = kres.start + Len(in_claim) + 1

\* ------------------------------------------------------------------ C22
\* C22: no subscriber is ever sent an agent_edit 'replace' event whose
\* content is the sentence coach() returns when the LLM call failed.
C22_NoApologyEdit ==
  \A c \in Conns : \A k \in 1..Len(queues[c]) :
    queues[c][k].event_type = "agent_edit" /\ queues[c][k].operation = "replace"
      => queues[c][k].content # <<"s", "o", "r", "r", "y">>

\* ------------------------------------------------------------------ C23
\* C23: a request on an idea's route that was accepted, and so has added
\* its message to a session, works on a session of that idea.
C23_SessionOfPathIdea ==
  \A r \in Reqs :
    /\ req[r].route \in {"kernel", "chat"}
    /\ req[r].pc = "awaiting" \/ (req[r].pc = "done" /\ req[r].status = 200)
    => /\ req[r].session_id \in 1..Len(sessions)
       /\ sessions[req[r].session_id].idea_id = req[r].entity

\* ------------------------------------------------------------------ C24
\* C24: a selection action answered 400 because its text was not located
\* leaves the sessions, the session messages, the stored files and every
\* subscriber's queue as they were, on the idea route and the objective route.
C24_NotFoundChangesNothing ==
  [][\A r \in Reqs :
       /\ req[r].pc = "idle" /\ req'[r].pc = "done"
       /\ req'[r].status = 400 /\ req'[r].detail = "Could not locate selected text"
       => /\ sessions' = sessions
          /\ session_messages' = session_messages
          /\ queues' = queues
          /\ kernel_files' = kernel_files /\ objective_files' = objective_files
    ]_vars

\* ------------------------------------------------------------------ C25
\* the queues a registry lists under a key
RegisteredFor(registry, key) ==
  IF key \in DOMAIN registry THEN {registry[key][i] : i \in 1..Len(registry[key])} ELSE {}

\* the registry an emit, subscribe or unsubscribe call works on, before and after it
RegistryBefore(kind) == IF kind = "idea" THEN idea_subscribers ELSE objective_subscribers
RegistryAfter(kind) == IF kind = "idea" THEN idea_subscribers' ELSE objective_subscribers'

\* C25: an emit for an id puts the event once, at the tail, on each queue
\* that its registry lists under that id when the call is made, and leaves
\* every other queue as it was: queues under other ids, queues unsubscribed
\* before, and queues of the other registry under the same id; a queue
\* subscribed afterwards starts empty; subscribe and unsubscribe put nothing.
C25_EmitReachesSubscribersOnly ==
  [][/\ call'.op = "emit" =>
          /\ Len(queues') = Len(queues)
          /\ \A q \in 1..Len(queues) :
               IF q \in RegisteredFor(RegistryBefore(call'.agent_type), call'.idea_id)
                 THEN /\ Len(queues'[q]) = Len(queues[q]) + 1
                      /\ SubSeq(queues'[q], 1, Len(queues[q])) = queues[q]
                      /\ queues'[q][Len(queues'[q])].edit_id = call'.result
                 ELSE queues'[q] = queues[q]
     /\ call'.op = "subscribe" =>
          /\ queues'[call'.result] = <<>>
          /\ \A q \in 1..Len(queues) : queues'[q] = queues[q]
     /\ call'.op = "unsubscribe" => queues' = queues
    ]_vars

\* an idea event was just put on a queue of the idea registry while a queue
\* listed under the same id in the objective registry, and a queue listed
\* nowhere, stay empty
C25_Witness ==
  /\ call.op = "emit" /\ call.agent_type = "idea"
  /\ \E q \in RegisteredFor(idea_subscribers, call.idea_id) :
       queues[q] # <<>> /\ queues[q][Len(queues[q])].edit_id = call.result
  /\ \E q \in RegisteredFor(objective_subscribers, call.idea_id) : queues[q] = <<>>
  /\ \E q \in 1..Len(queues) :
       /\ queues[q] = <<>>
       /\ \A key \in {"idea1", "obj1"} :
            q \notin RegisteredFor(idea_subscribers, key) \cup RegisteredFor(objective_subscribers, key)

\* ------------------------------------------------------------------ C26
\* C26: after every call each key of either registry has a non-empty list;
\* an emit leaves the registries as they are; an unsubscribe of a listed
\* queue removes that queue, and the key with it when it was the last; an
\* unsubscribe of a queue not listed under the key changes nothing.
C26_NoEmptyList ==
  [][/\ \A key \in DOMAIN idea_subscribers' : Len(idea_subscribers'[key]) > 0
     /\ \A key \in DOMAIN objective_subscribers' : Len(objective_subscribers'[key]) > 0
     /\ call'.op = "emit" =>
          idea_subscribers' = idea_subscribers /\ objective_subscribers' = objective_subscribers
     /\ call'.op = "unsubscribe" =>
          LET before == RegistryBefore(call'.agent_type)
              after == RegistryAfter(call'.agent_type)
              key == call'.idea_id
          IN /\ IF call'.result \in RegisteredFor(before, key)
                  THEN /\ RegisteredFor(after, key) = RegisteredFor(before, key) \ {call'.result}
                       /\ RegisteredFor(before, key) = {call'.result} => key \notin DOMAIN after
                       /\ \A k \in DOMAIN before \ {key} : k \in DOMAIN after /\ after[k] = before[k]
                  ELSE after = before
             /\ call'.agent_type = "idea" => objective_subscribers' = objective_subscribers
             /\ call'.agent_type = "objective" => idea_subscribers' = idea_subscribers
    ]_vars

\* the only queue of an id was unsubscribed and the id is gone from the
\* idea registry, while the objective registry still lists a queue
C26_Witness ==
  /\ call.op = "unsubscribe" /\ call.agent_type = "idea"
  /\ Len(queues) >= 3
  /\ DOMAIN idea_subscribers = {}
  /\ \E key \in DOMAIN objective_subscribers : Len(objective_subscribers[key]) = 1
  /\ \A key \in DOMAIN objective_subscribers :
       call.result \notin RegisteredFor(objective_subscribers, key)
  /\ call.result > 1

\* ------------------------------------------------------------------ C28
\* how often the event of the n-th emit is in a queue
Occurrences(queue, n) == Cardinality({i \in 1..Len(queue) : queue[i].edit_id = n})

\* C28: no emit is ever left suspended inside its loop, so a whole emit is
\* one step in which the registries do not change and every queue listed
\* for the id gets the event exactly once.
C28_FanOutAtomic ==
  [][/\ ~emitting'.active
     /\ call'.op # "emit suspended"
     /\ call'.op = "emit" =>
          /\ idea_subscribers' = idea_subscribers
          /\ objective_subscribers' = objective_subscribers
          /\ \A q \in RegisteredFor(RegistryAfter(call'.agent_type), call'.idea_id) :
               Occurrences(queues'[q], call'.result) = 1
    ]_vars

\* the second emit went to two queues that still held the first event
C28_Witness ==
  /\ call.op = "emit" /\ call.result = 2 /\ ~emitting.active
  /\ \E q1, q2 \in RegisteredFor(RegistryBefore(call.agent_type), call.idea_id) :
       /\ q1 # q2
       /\ Len(queues[q1]) = 2 /\ Len(queues[q2]) = 2

\* ------------------------------------------------------------------ C29
\* whether a queue holds the event of the n-th emit, and where
Holds(queue, n) == \E i \in 1..Len(queue) : queue[i].edit_id = n
PositionIn(queue, n) == CHOOSE i \in 1..Len(queue) : queue[i].edit_id = n

\* C29: every queue holds its events in the order of the emit calls, oldest
\* first, and two queues that hold the same two events hold them in the
\* same order.
C29_EmitOrder ==
  /\ \A q \in 1..Len(queues) : \A i, j \in 1..Len(queues[q]) :
       i < j => queues[q][i].edit_id < queues[q][j].edit_id
  /\ \A q1, q2 \in 1..Len(queues) : \A m, n \in 1..next_edit :
       /\ Holds(queues[q1], m) /\ Holds(queues[q1], n)
       /\ Holds(queues[q2], m) /\ Holds(queues[q2], n)
       => (PositionIn(queues[q1], m) < PositionIn(queues[q1], n)
             <=> PositionIn(queues[q2], m) < PositionIn(queues[q2], n))

\* two queues of one id hold the events of both emits
C29_Witness ==
  \E key \in {"idea1", "obj1"} : \E q1, q2 \in RegisteredFor(idea_subscribers, key) :
    /\ q1 # q2
    /\ Holds(queues[q1], 1) /\ Holds(queues[q1], 2)
    /\ Holds(queues[q2], 1) /\ Holds(queues[q2], 2)
    /\ call.op = "emit"

\* ------------------------------------------------------------------ C30
\* C30: when the completion sync has run for a file found complete, the
\* idea's kernel_completion is the number of its complete files, each queue
\* subscribed to the idea got one completion_changed event more, carrying
\* that number, and the coherence evaluation is awaited exactly when the
\* number is at least 2; the end of the coherence evaluation, failed or
\* not, changes neither the count, nor the flags, nor the queues.
C30_CompletionSync ==
  [][/\ call'.op = "on_kernel_file_marked_complete_async" /\ call'.idea_id \in DOMAIN ideas' =>
          LET n == Cardinality(CompleteFilesOf(is_complete', call'.idea_id))
          IN /\ ideas'[call'.idea_id].kernel_completion = n
             /\ \A q \in 1..Len(queues) :
                  IF q \in RegisteredFor(idea_subscribers, call'.idea_id)
                    THEN /\ Len(queues'[q]) = Len(queues[q]) + 1
                         /\ SubSeq(queues'[q], 1, Len(queues[q])) = queues[q]
                         /\ queues'[q][Len(queues'[q])].event_type = "completion_changed"
                         /\ queues'[q][Len(queues'[q])].total_complete = n
                    ELSE queues'[q] = queues[q]
             /\ evaluation'.pc = "awaiting" <=> n >= 2
     /\ call'.op = "coherence_evaluate" =>
          /\ evaluation.pc = "awaiting"
          /\ ideas' = ideas /\ is_complete' = is_complete /\ queues' = queues
    ]_vars

\* the coherence evaluation failed after the second file was found
\* complete: the count is 2 and the subscriber holds the event with 2
C30_Witness ==
  /\ call.op = "coherence_evaluate" /\ call.result = 0
  /\ ideas[call.idea_id].kernel_completion = 2
  /\ \E q \in RegisteredFor(idea_subscribers, call.idea_id) :
       /\ Len(queues[q]) = 2
       /\ queues[q][2].total_complete = 2 /\ queues[q][1].total_complete = 1

\* ------------------------------------------------------------------ C27
\* the connections whose generator has started and has not ended
LiveConnections(kind, entity) ==
  {c \in Conns : /\ conn[c].state \in {"yielding", "open"}
                 /\ conn[c].kind = kind /\ conn[c].entity = entity}

\* C27: the queues registered for an idea or an objective are exactly the
\* queues of the live connections to its event stream, so that a
\* connection that has ended holds no registered queue.
C27_RegisteredAreLive ==
  /\ \A key \in SseKeys :
       /\ RegisteredFor(idea_subscribers, key) = LiveConnections("idea", key)
       /\ RegisteredFor(objective_subscribers, key) = LiveConnections("objective", key)
====
